---- MODULE Spec2Model ----
(***************************************************************************)
(* A model of the judge-response interpretation and scenario-matching      *)
(* code of evaluate.py: find_matching_scenario, extract_json_from_response,*)
(* extract_rating and evaluate_response.                                   *)
(*                                                                         *)
(* A Python str is a sequence of characters; a character is a one-element  *)
(* TLA+ string.  Characters that cannot be written inside a TLA+ string    *)
(* (the backtick, the CJK characters of the rating patterns) carry a name. *)
(***************************************************************************)
EXTENDS Integers, Sequences, FiniteSets, TLC

VARIABLES
    text,            \* extract_*: the argument `text`; evaluate_response: evaluation_text
    pc,              \* position of the running function / loop
    out,             \* extract_*: what the call returned or raised
    max_retries,     \* evaluate_response: its max_retries argument
    attempt,         \* evaluate_response: the loop variable `attempt`
    api_calls,       \* evaluate_response: calls of client.chat.completions.create made
    ret,             \* evaluate_response: the dictionary it returned
    catalog,         \* find_matching_scenario: scenario_metadata_dict, in iteration order
    scenario_class,  \* find_matching_scenario: its scenario_class argument
    user_question,   \* find_matching_scenario: its user_question argument
    matched,         \* find_matching_scenario: the (key, meta) pair it returned
    again,           \* extract_json_from_response: what a second call on the same text returned
    caught,          \* evaluate_response: the exception its except clause caught last
    previous_file,   \* main loop: the evaluation file of an earlier run
    model_results,   \* main loop: the records of the model under evaluation
    eval_template,   \* main loop: the prompt template of the evaluation config
    existing_evaluations, \* main loop: stored successful entries by question
    idx,             \* main loop: records processed so far
    evaluation_results,   \* main loop: the entries appended so far
    success_count,   \* main loop: its success counter
    fail_count,      \* main loop: its failure counter
    matcher_calls,   \* main loop: calls of find_matching_scenario made
    evaluator_calls, \* main loop: calls of the evaluator endpoint made
    api_trace,       \* main loop: what the endpoint did in the last evaluate_response call
    saved,           \* main loop: what save_evaluation_results wrote
    run,             \* main loop: 1 in the first run over the model, 2 in a re-run
    summary,         \* generate_evaluation_summary: the statistics it computed
    request,         \* main.py LLM_request: its arguments, attempts and result
    tests            \* main.py test loop: its counters, lists and files

loopVars == <<previous_file, model_results, eval_template, existing_evaluations, idx,
              evaluation_results, success_count, fail_count, matcher_calls,
              evaluator_calls, api_trace, saved, run, summary>>

mainVars == <<request, tests>>

vars == <<text, pc, out, max_retries, attempt, api_calls, ret,
          catalog, scenario_class, user_question, matched, again, caught, loopVars,
          mainVars>>

extractVars == <<text, out, again>>
evalVars == <<max_retries, attempt, api_calls, ret, caught>>
matchVars == <<catalog, scenario_class, user_question, matched>>

(***************************************************************************)
(* Characters.                                                             *)
(***************************************************************************)
DQ == "\""
BSL == "\\"
SP == " "
NL == "\n"
TAB == "\t"
CR == "\r"
BS == "backspace"
BT == "backtick"
\* A run of '[' longer than the interpreter's recursion limit, as one character.
DEEP == "[*"
\* The run of ']' that closes a DEEP run, as one character.
DEEPEND == "*]"
\* The CJK characters of extract_rating's patterns.
ZhPing == "zh:ping"
ZhJi == "zh:ji"
ZhFen == "zh:fen"
ZhWei == "zh:wei"
ZhShi == "zh:shi"
FwColon == "fw:colon"

Digits == {"0", "1", "2", "3", "4", "5", "6", "7", "8", "9"}

\* str.isspace() / regex \s / JSON whitespace, over the characters used here.
IsSpace(c) == c \in {SP, NL, TAB, CR}

\* Case folding of re.IGNORECASE and str.upper(), over the letters used here.
Lower(c) ==
    CASE c = "A" -> "a" [] c = "B" -> "b" [] c = "C" -> "c" [] c = "D" -> "d"
      [] c = "E" -> "e" [] OTHER -> c

Upper(c) ==
    CASE c = "a" -> "A" [] c = "b" -> "B" [] c = "c" -> "C" [] c = "d" -> "D"
      [] c = "e" -> "E" [] OTHER -> c

\* The class [ABCD] under re.IGNORECASE.
IsABCD(c) == Upper(c) \in {"A", "B", "C", "D"}

W_rating == <<"r", "a", "t", "i", "n", "g">>
W_reasoning == <<"r", "e", "a", "s", "o", "n", "i", "n", "g">>
W_json == <<"j", "s", "o", "n">>
W_aspects == <<"_", "a", "s", "p", "e", "c", "t", "s">>
W_positive_aspects == <<"p", "o", "s", "i", "t", "i", "v", "e">> \o W_aspects
W_negative_aspects == <<"n", "e", "g", "a", "t", "i", "v", "e">> \o W_aspects
W_key_issues == <<"k", "e", "y", "_", "i", "s", "s", "u", "e", "s">>
W_Unknown == <<"U", "n", "k", "n", "o", "w", "n">>
\* The text "reason not extracted" that strategy 5 substitutes, as one symbol.
Placeholder == <<"zh:no-detailed-reason-extracted">>
\* Python's None where a str is expected.
PyNone == <<"py:None">>
IsStr(t) == t # PyNone
Fence == <<BT, BT, BT>>
Quoted(w) == <<DQ>> \o w \o <<DQ>>

(***************************************************************************)
(* Sequence helpers: slicing, str.strip(), substring search.               *)
(***************************************************************************)
\* s[a-1:b] of Python, 1-based and inclusive here.
Slice(s, a, b) == IF a > b THEN <<>> ELSE SubSeq(s, a, b)

\* lit occurs in s at position i (case folded when ci).
MatchAt(s, i, lit, ci) ==
    /\ i >= 1
    /\ i + Len(lit) - 1 <= Len(s)
    /\ \A k \in 1..Len(lit) :
          IF ci THEN Lower(s[i + k - 1]) = Lower(lit[k]) ELSE s[i + k - 1] = lit[k]

RECURSIVE FindSub(_, _, _, _)
\* The first position >= from where lit occurs in s, 0 when there is none.
FindSub(s, lit, from, ci) ==
    IF from + Len(lit) - 1 > Len(s) THEN 0
    ELSE IF MatchAt(s, from, lit, ci) THEN from
    ELSE FindSub(s, lit, from + 1, ci)

\* `lit in s` of Python.
Contains(s, lit) == FindSub(s, lit, 1, FALSE) # 0

RECURSIVE SkipSpace(_, _)
\* The first position >= i of s that holds no whitespace (Len(s) + 1 at the end).
SkipSpace(s, i) ==
    IF i <= Len(s) /\ IsSpace(s[i]) THEN SkipSpace(s, i + 1) ELSE i

RECURSIVE SkipSpaceBack(_, _)
SkipSpaceBack(s, i) ==
    IF i >= 1 /\ IsSpace(s[i]) THEN SkipSpaceBack(s, i - 1) ELSE i

\* str.strip()
Strip(s) == Slice(s, SkipSpace(s, 1), SkipSpaceBack(s, Len(s)))

RECURSIVE LastIndexOf(_, _, _)
\* The last position <= i of s that holds c, 0 when there is none.
LastIndexOf(s, c, i) ==
    IF i < 1 THEN 0 ELSE IF s[i] = c THEN i ELSE LastIndexOf(s, c, i - 1)

(***************************************************************************)
(* json.loads.  A parsed value is a record of one shape:                   *)
(*   kind  "dict" | "list" | "str" | "num", as isinstance sees it;         *)
(*   dict  for a dict, the mapping from its keys to its members' values;   *)
(*   flat  the value written out as a sequence of characters after a tag,  *)
(*         which is how a member value is stored in its parent.            *)
(* Over the characters used here no literal (null, true, false, NaN) can   *)
(* be spelled, so a value starts with a quote, a brace, a bracket or a     *)
(* digit.  st is "ok", "err" (json.JSONDecodeError) or "raise" (another    *)
(* exception: RecursionError from the scanner on DEEP).                    *)
(***************************************************************************)
NoDict == <<>>

PFail(st) == [st |-> st, kind |-> "none", dict |-> NoDict, flat |-> <<>>, pos |-> 0]

POk(kind, dict, flat, pos) ==
    [st |-> "ok", kind |-> kind, dict |-> dict, flat |-> flat, pos |-> pos]

\* The character a backslash escape stands for; "" when the escape is invalid.
Unescape(c) ==
    CASE c = DQ -> DQ [] c = BSL -> BSL [] c = "/" -> "/" [] c = "n" -> NL
      [] c = "t" -> TAB [] c = "r" -> CR [] c = "b" -> BS [] OTHER -> ""

RECURSIVE ScanString(_, _, _)
\* py_scanstring, strict: i is the position after the opening quote.
ScanString(s, i, acc) ==
    IF i > Len(s) THEN PFail("err")
    ELSE IF s[i] = DQ THEN POk("str", NoDict, <<"str">> \o acc, i + 1)
    ELSE IF s[i] = BSL THEN
        IF i + 1 > Len(s) \/ Unescape(s[i + 1]) = "" THEN PFail("err")
        ELSE ScanString(s, i + 2, Append(acc, Unescape(s[i + 1])))
    ELSE IF s[i] \in {NL, TAB, CR} THEN PFail("err")
    ELSE ScanString(s, i + 1, Append(acc, s[i]))

RECURSIVE ScanDigits(_, _)
ScanDigits(s, i) ==
    IF i <= Len(s) /\ s[i] \in Digits THEN ScanDigits(s, i + 1) ELSE i

\* NUMBER_RE at a digit: (0|[1-9]\d*) then an optional exponent; no sign or
\* fraction can be spelled over the characters used here.
ScanNumber(s, i) ==
    LET intEnd == IF s[i] = "0" THEN i + 1 ELSE ScanDigits(s, i)
        hasExp == /\ intEnd + 1 <= Len(s)
                  /\ Lower(s[intEnd]) = "e"
                  /\ s[intEnd + 1] \in Digits
        end == IF hasExp THEN ScanDigits(s, intEnd + 1) ELSE intEnd
    IN  POk("num", NoDict, <<"num">> \o Slice(s, i, end - 1), end)

RECURSIVE ParseValue(_, _)
RECURSIVE ParseMembers(_, _, _, _)
RECURSIVE ParseElements(_, _, _)

\* scan_once: the value that starts at position i.
ParseValue(s, i) ==
    IF i > Len(s) THEN PFail("err")
    ELSE IF s[i] = DQ THEN ScanString(s, i + 1, <<>>)
    ELSE IF s[i] = "{" THEN
        LET j == SkipSpace(s, i + 1)
        IN  IF j <= Len(s) /\ s[j] = "}"
            THEN POk("dict", NoDict, <<"dict", "{", "}">>, j + 1)
            ELSE ParseMembers(s, j, NoDict, <<"dict", "{">>)
    ELSE IF s[i] = "[" THEN
        LET j == SkipSpace(s, i + 1)
        IN  IF j <= Len(s) /\ s[j] = "]"
            THEN POk("list", NoDict, <<"list", "[", "]">>, j + 1)
            ELSE ParseElements(s, j, <<"list", "[">>)
    ELSE IF s[i] \in Digits THEN ScanNumber(s, i)
    ELSE IF s[i] = DEEP THEN PFail("raise")
    ELSE PFail("err")

\* JSONObject: the members from position j on; a repeated key keeps the last value.
ParseMembers(s, j, d, f) ==
    IF j > Len(s) \/ s[j] # DQ THEN PFail("err")
    ELSE
        LET key == ScanString(s, j + 1, <<>>)
        IN  IF key.st # "ok" THEN key
            ELSE
                LET k == SkipSpace(s, key.pos)
                IN  IF k > Len(s) \/ s[k] # ":" THEN PFail("err")
                    ELSE
                        LET v == ParseValue(s, SkipSpace(s, k + 1))
                        IN  IF v.st # "ok" THEN PFail(v.st)
                            ELSE
                                LET m == SkipSpace(s, v.pos)
                                    name == Tail(key.flat)
                                    d2 == (name :> v.flat) @@ d
                                    f2 == f \o name \o <<":">> \o v.flat
                                IN  IF m > Len(s) THEN PFail("err")
                                    ELSE IF s[m] = "}"
                                    THEN POk("dict", d2, f2 \o <<"}">>, m + 1)
                                    ELSE IF s[m] = ","
                                    THEN ParseMembers(s, SkipSpace(s, m + 1), d2,
                                                      f2 \o <<",">>)
                                    ELSE PFail("err")

\* JSONArray: the elements from position j on.
ParseElements(s, j, f) ==
    LET v == ParseValue(s, j)
    IN  IF v.st # "ok" THEN PFail(v.st)
        ELSE
            LET m == SkipSpace(s, v.pos)
                f2 == f \o v.flat
            IN  IF m > Len(s) THEN PFail("err")
                ELSE IF s[m] = "]" THEN POk("list", NoDict, f2 \o <<"]">>, m + 1)
                ELSE IF s[m] = ","
                THEN ParseElements(s, SkipSpace(s, m + 1), f2 \o <<",">>)
                ELSE PFail("err")

\* JSONDecoder.decode: after the value v only whitespace may follow ("Extra data").
DecodeEnd(s, v) ==
    IF v.st # "ok" THEN PFail(v.st)
    ELSE IF SkipSpace(s, v.pos) # Len(s) + 1 THEN PFail("err")
    ELSE v

\* json.loads(s): one value between optional whitespace, nothing after it.
JsonLoads(s) == DecodeEnd(s, ParseValue(s, SkipSpace(s, 1)))

(***************************************************************************)
(* extract_json_from_response: the five strategies, each on the stripped   *)
(* text.  A strategy's outcome is "ok" with the dict it found, "fail"      *)
(* (no match, a caught JSONDecodeError, not a dict, no rating key) or      *)
(* "raise" (json.loads raised something the except clause does not name).  *)
(***************************************************************************)
SOk(d) == [st |-> "ok", dict |-> d]
SFail == [st |-> "fail", dict |-> NoDict]
SRaise == [st |-> "raise", dict |-> NoDict]

\* if isinstance(parsed, dict) and 'rating' in parsed: return parsed, inside
\* try ... except json.JSONDecodeError
Accept(parsed) ==
    IF parsed.st = "raise" THEN SRaise
    ELSE IF parsed.st = "ok" /\ parsed.kind = "dict" /\ W_rating \in DOMAIN parsed.dict
    THEN SOk(parsed.dict)
    ELSE SFail

\* try: parsed = json.loads(s) ... and the test on parsed
TryLoads(s) == Accept(JsonLoads(s))

\* The direct parse left out of the cascade.
Strategy1LeftOut(t) == SFail

Strategy1(t) == TryLoads(t)

\* re.search(r'```json\s*(.*?)\s*```', text, re.DOTALL): the first ```json and the
\* first ``` after it; group(1).strip() is what lies between, stripped.
Strategy2(t) ==
    LET p == FindSub(t, Fence \o W_json, 1, FALSE)
        f == IF p = 0 THEN 0 ELSE FindSub(t, Fence, p + 7, FALSE)
    IN  IF f = 0 THEN SFail ELSE TryLoads(Strip(Slice(t, p + 7, f - 1)))

\* re.search(r'```\s*(.*?)\s*```', text, re.DOTALL)
Strategy3(t) ==
    LET p == FindSub(t, Fence, 1, FALSE)
        f == IF p = 0 THEN 0 ELSE FindSub(t, Fence, p + 3, FALSE)
    IN  IF f = 0 THEN SFail ELSE TryLoads(Strip(Slice(t, p + 3, f - 1)))

\* The span ended at the first '}' after the first '{' instead of the last one.
Strategy4FirstClose(t) ==
    LET a == FindSub(t, <<"{">>, 1, FALSE)
        b == IF a = 0 THEN 0 ELSE FindSub(t, <<"}">>, a, FALSE)
    IN  IF b = 0 THEN SFail ELSE TryLoads(Slice(t, a, b))

\* re.search(r'\{.*\}', text, re.DOTALL): from the first '{' to the last '}'.
Strategy4(t) ==
    LET a == FindSub(t, <<"{">>, 1, FALSE)
        b == LastIndexOf(t, "}", Len(t))
    IN  IF a = 0 \/ b < a THEN SFail ELSE TryLoads(Slice(t, a, b))

\* r'"rating"\s*:\s*"([ABCD])"' with re.IGNORECASE, tried at position p: the
\* position of the captured letter, 0 when it does not match there.
RatingFieldAt(t, p) ==
    IF ~MatchAt(t, p, Quoted(W_rating), TRUE) THEN 0
    ELSE
        LET k == SkipSpace(t, p + 8)
            m == SkipSpace(t, k + 1)
        IN  IF /\ k <= Len(t)
               /\ t[k] = ":"
               /\ m + 2 <= Len(t)
               /\ t[m] = DQ
               /\ IsABCD(t[m + 1])
               /\ t[m + 2] = DQ
            THEN m + 1
            ELSE 0

RECURSIVE SearchRatingFieldCaseSensitive(_, _)
\* The search without re.IGNORECASE on the letter: only A, B, C, D are captured.
SearchRatingFieldCaseSensitive(t, p) ==
    IF p > Len(t) THEN ""
    ELSE IF RatingFieldAt(t, p) # 0 /\ t[RatingFieldAt(t, p)] \in {"A", "B", "C", "D"}
    THEN t[RatingFieldAt(t, p)]
    ELSE SearchRatingFieldCaseSensitive(t, p + 1)

RECURSIVE SearchRatingField(_, _)
\* re.search of that pattern: the captured letter of the leftmost match, "" for None.
SearchRatingField(t, p) ==
    IF p > Len(t) THEN ""
    ELSE IF RatingFieldAt(t, p) # 0 THEN t[RatingFieldAt(t, p)]
    ELSE SearchRatingField(t, p + 1)

RECURSIVE ScanBodyNoEscapes(_, _)
\* The body pattern written [^"]*: a backslash does not protect a quote.
ScanBodyNoEscapes(t, i) ==
    IF i > Len(t) THEN 0
    ELSE IF t[i] = DQ THEN i
    ELSE ScanBodyNoEscapes(t, i + 1)

RECURSIVE ScanBody(_, _)
\* ((?:[^"\\]|\\.)*)" from position i: the position of the closing quote, 0 for none.
ScanBody(t, i) ==
    IF i > Len(t) THEN 0
    ELSE IF t[i] = DQ THEN i
    ELSE IF t[i] = BSL THEN (IF i + 1 > Len(t) THEN 0 ELSE ScanBody(t, i + 2))
    ELSE ScanBody(t, i + 1)

\* r'"reasoning"\s*:\s*"((?:[^"\\]|\\.)*)"' with re.DOTALL, tried at position p:
\* <<matched, group(1)>>.
ReasoningFieldAt(t, p) ==
    IF ~MatchAt(t, p, Quoted(W_reasoning), FALSE) THEN <<FALSE, <<>>>>
    ELSE
        LET k == SkipSpace(t, p + 11)
            m == SkipSpace(t, k + 1)
            close == ScanBody(t, m + 1)
        IN  IF k <= Len(t) /\ t[k] = ":" /\ m <= Len(t) /\ t[m] = DQ /\ close # 0
            THEN <<TRUE, Slice(t, m + 1, close - 1)>>
            ELSE <<FALSE, <<>>>>

RECURSIVE SearchReasoningField(_, _)
SearchReasoningField(t, p) ==
    IF p > Len(t) THEN <<FALSE, <<>>>>
    ELSE IF ReasoningFieldAt(t, p)[1] THEN ReasoningFieldAt(t, p)
    ELSE SearchReasoningField(t, p + 1)

EmptyList == <<"list", "[", "]">>
StrVal(chars) == <<"str">> \o chars

\* The minimal dict strategy 5 assembles.
Strategy5(t) ==
    LET letter == SearchRatingField(t, 1)
        reasoning_match == SearchReasoningField(t, 1)
        reasoning == IF reasoning_match[1] THEN reasoning_match[2] ELSE Placeholder
    IN  IF letter = "" THEN SFail
        ELSE SOk([k \in {W_rating, W_reasoning, W_positive_aspects,
                         W_negative_aspects, W_key_issues} |->
                    IF k = W_rating THEN StrVal(<<Upper(letter)>>)
                    ELSE IF k = W_reasoning THEN StrVal(reasoning)
                    ELSE EmptyList])

\* What a call returns: a dict (with the strategy that produced it, as the debug
\* print names it), None, or an exception that escapes.
Returned(d, n) == [st |-> "return", none |-> FALSE, dict |-> d, via |-> n]
ReturnedNone == [st |-> "return", none |-> TRUE, dict |-> NoDict, via |-> 0]
Raised == [st |-> "raise", none |-> FALSE, dict |-> NoDict, via |-> 0]

\* The cascade with the untyped fence tried before the typed one.
CascadeUntypedFenceFirst(r1, r2, r3, r4, r5) ==
    IF r1.st = "raise" THEN Raised
    ELSE IF r1.st = "ok" THEN Returned(r1.dict, 1)
    ELSE IF r3.st = "raise" THEN Raised
    ELSE IF r3.st = "ok" THEN Returned(r3.dict, 3)
    ELSE IF r2.st = "raise" THEN Raised
    ELSE IF r2.st = "ok" THEN Returned(r2.dict, 2)
    ELSE IF r4.st = "raise" THEN Raised
    ELSE IF r4.st = "ok" THEN Returned(r4.dict, 4)
    ELSE IF r5.st = "ok" THEN Returned(r5.dict, 5)
    ELSE ReturnedNone

\* The order of the function body: each strategy runs only when the ones before it
\* failed; r1..r5 are the strategies' outcomes on the stripped text.
Cascade(r1, r2, r3, r4, r5) ==
    IF r1.st = "raise" THEN Raised
    ELSE IF r1.st = "ok" THEN Returned(r1.dict, 1)
    ELSE IF r2.st = "raise" THEN Raised
    ELSE IF r2.st = "ok" THEN Returned(r2.dict, 2)
    ELSE IF r3.st = "raise" THEN Raised
    ELSE IF r3.st = "ok" THEN Returned(r3.dict, 3)
    ELSE IF r4.st = "raise" THEN Raised
    ELSE IF r4.st = "ok" THEN Returned(r4.dict, 4)
    ELSE IF r5.st = "ok" THEN Returned(r5.dict, 5)
    ELSE ReturnedNone

\* The strategies kept in a one-shot iterator that an earlier call has used up.
CascadeOnExhausted(t) ==
    IF out.fn = "extract_json_from_response" THEN ReturnedNone
    ELSE Cascade(Strategy1(t), Strategy2(t), Strategy3(t), Strategy4(t), Strategy5(t))

\* text = text.strip(), then the strategies in order.
CascadeOn(t) == Cascade(Strategy1(t), Strategy2(t), Strategy3(t), Strategy4(t), Strategy5(t))

extract_json_from_response(text0) ==
    IF ~IsStr(text0) THEN ReturnedNone ELSE CascadeOn(Strip(text0))

(***************************************************************************)
(* extract_rating: five patterns under re.IGNORECASE (without re.DOTALL,   *)
(* so '.' stops at a newline), then the letter probes.  A search gives the *)
(* captured character of the leftmost match, "" when nothing matches.      *)
(***************************************************************************)
RECURSIVE ScanLineForLetter(_, _)
\* .*?([ABCD]) from position i: the first letter before the end of the line.
ScanLineForLetter(t, i) ==
    IF i > Len(t) \/ t[i] = NL THEN 0
    ELSE IF IsABCD(t[i]) THEN i
    ELSE ScanLineForLetter(t, i + 1)

RECURSIVE SearchRatingWord(_, _)
\* r'rating.*?([ABCD])'
SearchRatingWord(t, from) ==
    LET p == FindSub(t, W_rating, from, TRUE)
        q == ScanLineForLetter(t, p + 6)
    IN  IF p = 0 THEN ""
        ELSE IF q # 0 THEN t[q]
        ELSE SearchRatingWord(t, p + 1)

RECURSIVE SkipSeparators(_, _)
\* [:：\s]*
SkipSeparators(t, i) ==
    IF i <= Len(t) /\ (t[i] \in {":", FwColon} \/ IsSpace(t[i]))
    THEN SkipSeparators(t, i + 1)
    ELSE i

RECURSIVE SearchGradeWord(_, _)
\* r'[评级评分][:：\s]*([ABCD])'
SearchGradeWord(t, p) ==
    LET q == SkipSeparators(t, p + 1)
    IN  IF p > Len(t) THEN ""
        ELSE IF t[p] \in {ZhPing, ZhJi, ZhFen} /\ q <= Len(t) /\ IsABCD(t[q]) THEN t[q]
        ELSE SearchGradeWord(t, p + 1)

RECURSIVE SearchLetterGrade(_, _)
\* r'([ABCD])级'
SearchLetterGrade(t, p) ==
    IF p + 1 > Len(t) THEN ""
    ELSE IF IsABCD(t[p]) /\ t[p + 1] = ZhJi THEN t[p]
    ELSE SearchLetterGrade(t, p + 1)

RECURSIVE SearchGradeIs(_, _)
\* r'评级\s*[为是]\s*([ABCD])'
SearchGradeIs(t, p) ==
    LET k == SkipSpace(t, p + 2)
        m == SkipSpace(t, k + 1)
    IN  IF p + 1 > Len(t) THEN ""
        ELSE IF /\ t[p] = ZhPing
                /\ t[p + 1] = ZhJi
                /\ k <= Len(t)
                /\ t[k] \in {ZhWei, ZhShi}
                /\ m <= Len(t)
                /\ IsABCD(t[m])
        THEN t[m]
        ELSE SearchGradeIs(t, p + 1)

\* re.search(patterns[n], text, re.IGNORECASE): group(1), "" for no match.
PatternSearch(n, t) ==
    CASE n = 1 -> SearchRatingField(t, 1)
      [] n = 2 -> SearchRatingWord(t, 1)
      [] n = 3 -> SearchGradeWord(t, 1)
      [] n = 4 -> SearchLetterGrade(t, 1)
      [] n = 5 -> SearchGradeIs(t, 1)

NumPatterns == 5
RatingLetters == <<"A", "B", "C", "D">>

\* f'"{char}"' in text or f': {char}' in text or f' {char} ' in text
Probe(char, t) ==
    \/ Contains(t, <<DQ, char, DQ>>)
    \/ Contains(t, <<":", SP, char>>)
    \/ Contains(t, <<SP, char, SP>>)

\* The first position of t where the letter occurs in one of the three probe forms.
FirstProbeAt(char, t) ==
    CHOOSE p \in 1..Len(t) :
        /\ \/ MatchAt(t, p, <<DQ, char, DQ>>, FALSE)
           \/ MatchAt(t, p, <<":", SP, char>>, FALSE)
           \/ MatchAt(t, p, <<SP, char, SP>>, FALSE)
        /\ \A q \in 1..(p - 1) :
              ~(\/ MatchAt(t, q, <<DQ, char, DQ>>, FALSE)
                \/ MatchAt(t, q, <<":", SP, char>>, FALSE)
                \/ MatchAt(t, q, <<SP, char, SP>>, FALSE))

\* The probe answering with the letter that occurs earliest in the text.
ProbeLoopEarliest(i, t) ==
    IF \A k \in 1..Len(RatingLetters) : ~Probe(RatingLetters[k], t) THEN W_Unknown
    ELSE <<RatingLetters[
            CHOOSE k \in {h \in 1..Len(RatingLetters) : Probe(RatingLetters[h], t)} :
                \A j \in {h \in 1..Len(RatingLetters) : Probe(RatingLetters[h], t)} :
                    FirstProbeAt(RatingLetters[k], t) <= FirstProbeAt(RatingLetters[j], t)]>>

RECURSIVE ProbeLoop(_, _)
\* for char in ['A', 'B', 'C', 'D']: the first letter, in that order, that is found.
ProbeLoop(i, t) ==
    IF i > Len(RatingLetters) THEN W_Unknown
    ELSE IF Probe(RatingLetters[i], t) THEN <<RatingLetters[i]>>
    ELSE ProbeLoop(i + 1, t)

\* The captured character returned as matched, its .upper() forgotten.
UpperOfForgotten(c) == c

\* match.group(1).upper() of the captured character c
UpperOf(c) == Upper(c)

RECURSIVE PatternLoop(_, _)
PatternLoop(n, t) ==
    IF n > NumPatterns THEN ProbeLoop(1, t)
    ELSE
        LET c == PatternSearch(n, t)
        IN  IF c # "" /\ Upper(c) \in {"A", "B", "C", "D"} THEN <<UpperOf(c)>>
            ELSE PatternLoop(n + 1, t)

\* The str extract_rating returns; re.search raises TypeError on None.
extract_rating(t) ==
    IF ~IsStr(t) THEN [st |-> "raise", rating |-> <<>>]
    ELSE [st |-> "return", rating |-> PatternLoop(1, t)]

(***************************************************************************)
(* The judge texts the functions are applied to: prose, then a payload     *)
(* that is bare or inside a typed or untyped fence with some whitespace    *)
(* padding, then prose.                                                    *)
(***************************************************************************)
\* The longest whitespace padding around a payload.
MaxPad == 1

JRating(x) == Quoted(W_rating) \o <<":", SP>> \o Quoted(<<x>>)
JReasoning(body) == Quoted(W_reasoning) \o <<":", SP>> \o Quoted(body)
Braced(inner) == <<"{">> \o inner \o <<"}">>

\* {"rating": "X", "reasoning": "r"}
VerdictText(x) == Braced(JRating(x) \o <<",", SP>> \o JReasoning(<<"r">>))

\* A well-formed object whose reasoning string holds a fence marker.
VerdictWithFenceInside == Braced(JRating("A") \o <<",", SP>> \o JReasoning(Fence))
\* A raw line break inside a string: not well-formed.
VerdictWithRawNewline == Braced(JRating("B") \o <<",", SP>> \o JReasoning(<<"r", NL, "r">>))
\* {"x": {"rating": "C"}}
NestedVerdict == Braced(Quoted(<<"x">>) \o <<":", SP>> \o Braced(JRating("C")))

\* {"rating": "C", "reasoning": "r\"r"}: an escaped quote inside the reasoning.
VerdictWithEscapedQuote ==
    Braced(JRating("C") \o <<",", SP>> \o JReasoning(<<"r", BSL, DQ, "r">>))

WellFormedRated ==
    {VerdictText(x) : x \in {"A", "B", "C", "D"}}
        \cup {Braced(JRating("E")), Braced(JRating("b")), VerdictWithFenceInside,
              VerdictWithEscapedQuote, Braced(Quoted(W_rating) \o <<":", SP, "5">>)}

PlainProse == <<"n", "o", "t", "e", SP>>

\* A well-formed array nested deeper than the interpreter's recursion limit.
DeepArray == <<DEEP, DEEPEND>>

\* Two well-formed objects with prose between them.
TwoVerdicts == VerdictText("B") \o <<SP>> \o PlainProse \o VerdictText("A")

Payloads ==
    WellFormedRated
        \cup {<<>>, Braced(JReasoning(<<"r">>)), <<"[", "1", "]">>,
              VerdictWithRawNewline, NestedVerdict, <<DEEP>>, TwoVerdicts, DeepArray}

Prose ==
    {<<>>, PlainProse,
     JRating("b") \o <<SP>>,
     W_rating \o <<":", SP, "C", SP>>,
     <<SP, "D", SP>>,
     <<DQ, "A", DQ, SP>>,
     <<ZhPing, ZhJi, FwColon, "c", SP>>,
     <<"B", ZhJi, SP>>,
     <<ZhPing, ZhJi, ZhWei, "D", SP>>,
     Fence \o <<NL>> \o Braced(JRating("D")) \o <<NL>> \o Fence \o <<NL>>}

Trailer == {<<>>, <<SP>> \o PlainProse, <<SP, DQ, "A", DQ>>, <<SP, "}">>}

Padding(k) == [i \in 1..k |-> IF i % 2 = 1 THEN NL ELSE SP]

Wrap(kind, k, payload) ==
    CASE kind = "bare" -> Padding(k) \o payload \o Padding(k)
      [] kind = "typed" -> Fence \o W_json \o Padding(k) \o payload \o Padding(k) \o Fence
      [] kind = "untyped" -> Fence \o Padding(k) \o payload \o Padding(k) \o Fence

Texts ==
    {pre \o Wrap(kind, k, payload) \o post :
        pre \in Prose, kind \in {"bare", "typed", "untyped"}, k \in 0..MaxPad,
        payload \in Payloads, post \in Trailer}

(***************************************************************************)
(* The specification of the two extraction functions as calls on a text.   *)
(***************************************************************************)
NoOut == [fn |-> "none", res |-> <<>>]
NoRet == [success |-> FALSE, returned |-> FALSE]
NoMatch == [called |-> FALSE]
NoCaught == "none"
NoFile == [kind |-> "absent", records |-> <<>>]
NoSummary == [called |-> FALSE]
NoRequest == [called |-> FALSE]
NoTests == [started |-> FALSE]

\* main.py is not running.
MainIdle == request = NoRequest /\ tests = NoTests

\* The main loop has not started: nothing loaded, nothing appended.
LoopIdle ==
    /\ previous_file = NoFile
    /\ model_results = <<>>
    /\ eval_template = "known_fields"
    /\ existing_evaluations = <<>>
    /\ idx = 0
    /\ evaluation_results = <<>>
    /\ success_count = 0
    /\ fail_count = 0
    /\ matcher_calls = 0
    /\ evaluator_calls = 0
    /\ api_trace = <<>>
    /\ saved = <<>>
    /\ run = 0
    /\ summary = NoSummary

InitExtract ==
    /\ text \in Texts
    /\ pc = "start"
    /\ out = NoOut
    /\ max_retries = 0
    /\ attempt = 0
    /\ api_calls = 0
    /\ ret = NoRet
    /\ catalog = <<>>
    /\ scenario_class = <<>>
    /\ user_question = <<>>
    /\ matched = NoMatch
    /\ again = NoOut
    /\ caught = NoCaught
    /\ LoopIdle
    /\ MainIdle

CallExtractJson ==
    /\ pc = "start"
    /\ pc' = "done"
    /\ out' = [fn |-> "extract_json_from_response", res |-> extract_json_from_response(text)]
    /\ UNCHANGED <<text, again, evalVars, matchVars, loopVars, mainVars>>

CallExtractRating ==
    /\ pc = "start"
    /\ pc' = "done"
    /\ out' = [fn |-> "extract_rating", res |-> extract_rating(text)]
    /\ UNCHANGED <<text, again, evalVars, matchVars, loopVars, mainVars>>

\* A second call of extract_json_from_response with the same argument.
CallExtractJsonAgain ==
    /\ pc = "done"
    /\ out.fn = "extract_json_from_response"
    /\ pc' = "called twice"
    /\ again' = [fn |-> "extract_json_from_response", res |-> extract_json_from_response(text)]
    /\ UNCHANGED <<text, out, evalVars, matchVars, loopVars, mainVars>>

NextExtract == CallExtractJson \/ CallExtractRating \/ CallExtractJsonAgain

SpecExtract == InitExtract /\ [][NextExtract]_vars

(***************************************************************************)
(* Claims about extract_json_from_response and extract_rating.             *)
(***************************************************************************)
JsonCalled == out.fn = "extract_json_from_response"
RatingCalled == out.fn = "extract_rating"

\* The five strategies' outcomes on the stripped text, each taken alone.
Outcomes(t) ==
    <<Strategy1(Strip(t)), Strategy2(Strip(t)), Strategy3(Strip(t)),
      Strategy4(Strip(t)), Strategy5(Strip(t))>>

Succeeding(t) == {i \in 1..5 : Outcomes(t)[i].st = "ok"}
Lowest(S) == CHOOSE i \in S : \A j \in S : i <= j

\* C2: whenever extract_json_from_response returns, it returns the dict of the
\* lowest-numbered strategy that succeeds on the text (and None when none does);
\* a later strategy's dict is never returned in place of an earlier one's.
C2_LowestStrategyWins ==
    (JsonCalled /\ out.res.st = "return") =>
        LET o == Outcomes(text)
            ok == {i \in 1..5 : o[i].st = "ok"}
        IN  IF ok = {} THEN out.res.none
            ELSE /\ ~out.res.none
                 /\ out.res.via = Lowest(ok)
                 /\ out.res.dict = o[Lowest(ok)].dict

\* A text on which strategies 2 and 3 both succeed, with different dicts.
C2_Witness ==
    /\ JsonCalled
    /\ out.res.via = 2
    /\ Outcomes(text)[3].st = "ok"
    /\ Outcomes(text)[3].dict # out.res.dict

\* C3: extract_json_from_response never raises, and returns None when all five
\* strategies fail.
C3_NeverRaises ==
    JsonCalled =>
        /\ out.res.st = "return"
        /\ (Succeeding(text) = {} => out.res.none)

AnyPatternMatches(t) == \E n \in 1..NumPatterns : PatternSearch(n, t) # ""
AnyProbeHits(t) == \E i \in 1..Len(RatingLetters) : Probe(RatingLetters[i], t)
RatingNames == {<<"A">>, <<"B">>, <<"C">>, <<"D">>, W_Unknown}

\* C4: extract_rating never raises on a string, returns one of A, B, C, D, Unknown,
\* and returns Unknown when no pattern matches and no probe hits.
C4_RatingTotal ==
    RatingCalled =>
        /\ out.res.st = "return"
        /\ out.res.rating \in RatingNames
        /\ (~AnyPatternMatches(text) /\ ~AnyProbeHits(text) => out.res.rating = W_Unknown)

\* A non-empty text with no rating indicator, answered Unknown.
C4_Witness ==
    /\ RatingCalled
    /\ text # <<>>
    /\ ~AnyPatternMatches(text)
    /\ ~AnyProbeHits(text)
    /\ out.res.rating = W_Unknown

\* C9: on {"rating": "X", "reasoning": "r"}, for each of the four letters X, the
\* call returns through strategy 1 a dict with rating X and reasoning r.
C9_DirectParse ==
    \A x \in {"A", "B", "C", "D"} :
        (JsonCalled /\ text = VerdictText(x)) =>
            /\ out.res.st = "return"
            /\ ~out.res.none
            /\ out.res.via = 1
            /\ out.res.dict[W_rating] = StrVal(<<x>>)
            /\ out.res.dict[W_reasoning] = StrVal(<<"r">>)

C9_Witness ==
    /\ JsonCalled
    /\ text = VerdictText("C")
    /\ out.res.via = 1
    /\ out.res.dict[W_rating] = StrVal(<<"C">>)

\* Prose with no fence marker in it.
FenceFreeProse == {p \in Prose : ~Contains(p, Fence)}

\* C10: on prose around a ```json fenced block whose interior is a well-formed
\* object with a rating field, strategy 1 fails and strategy 2 returns exactly
\* the object inside the fence.
C10_TypedFenceRecovered ==
    \A pre \in FenceFreeProse, post \in Trailer, k \in 0..MaxPad, obj \in WellFormedRated :
        (JsonCalled /\ text = pre \o Wrap("typed", k, obj) \o post) =>
            /\ Outcomes(text)[1].st = "fail"
            /\ Outcomes(text)[2] = SOk(JsonLoads(obj).dict)
            /\ out.res = Returned(JsonLoads(obj).dict, 2)

\* Whitespace fills t[from .. from + n - 1].
SpaceRun(t, from, n) ==
    /\ from + n - 1 <= Len(t)
    /\ \A k \in 0..(n - 1) : IsSpace(t[from + k])

\* The letter position of a field "rating" <ws> : <ws> "<X>" that starts at i, with
\* the key in any case and X one of a/b/c/d in either case; 0 when none starts there.
RatingLetterOfFieldAt(t, i) ==
    IF /\ MatchAt(t, i, Quoted(W_rating), TRUE)
       /\ \E a, b \in 0..Len(t) :
             /\ SpaceRun(t, i + 8, a)
             /\ i + 8 + a <= Len(t)
             /\ t[i + 8 + a] = ":"
             /\ SpaceRun(t, i + 9 + a, b)
             /\ i + 11 + a + b <= Len(t)
             /\ t[i + 9 + a + b] = DQ
             /\ t[i + 10 + a + b] \in {"a", "b", "c", "d", "A", "B", "C", "D"}
             /\ t[i + 11 + a + b] = DQ
    THEN CHOOSE m \in (i + 10)..Len(t) :
            \E a, b \in 0..Len(t) :
                /\ m = i + 10 + a + b
                /\ SpaceRun(t, i + 8, a)
                /\ i + 8 + a <= Len(t)
                /\ t[i + 8 + a] = ":"
                /\ SpaceRun(t, i + 9 + a, b)
                /\ t[i + 9 + a + b] = DQ
    ELSE 0

\* The positions of the text where a rating field starts.
RatingFieldStarts(t) == {i \in 1..Len(t) : RatingLetterOfFieldAt(t, i) # 0}

CapitalOf(c) ==
    CASE c \in {"a", "A"} -> "A" [] c \in {"b", "B"} -> "B"
      [] c \in {"c", "C"} -> "C" [] c \in {"d", "D"} -> "D"

\* The capital of the letter of the first rating field of t.
FirstFieldRating(t) ==
    LET S == RatingFieldStarts(t)
        i == CHOOSE x \in S : \A y \in S : x <= y
    IN  CapitalOf(t[RatingLetterOfFieldAt(t, i)])

\* C11: on a text on which strategies 1 to 4 all fail and that holds a rating field
\* with a letter a/b/c/d in either case, the call returns through strategy 5 a
\* verdict whose rating is the capital of the first such field's letter.
C11_SalvageFirstLetter ==
    JsonCalled =>
        LET t == Strip(text)
            o == Outcomes(text)
        IN  ((\A n \in 1..4 : o[n].st = "fail") /\ RatingFieldStarts(t) # {}) =>
                /\ out.res.st = "return"
                /\ ~out.res.none
                /\ out.res.via = 5
                /\ out.res.dict[W_rating] = StrVal(<<FirstFieldRating(t)>>)

\* Two rating fields with different letters, the first one in lower case.
C11_Witness ==
    /\ JsonCalled
    /\ out.res.via = 5
    /\ Cardinality({Lower(Strip(text)[RatingLetterOfFieldAt(Strip(text), i)]) :
                        i \in RatingFieldStarts(Strip(text))}) >= 2
    /\ out.res.dict[W_rating] = StrVal(<<"B">>)
    /\ Contains(text, JRating("b"))

RECURSIVE BackslashesBefore(_, _, _)
\* How many backslashes stand immediately before position c, not looking below lo.
BackslashesBefore(t, c, lo) ==
    IF c - 1 < lo \/ t[c - 1] # BSL THEN 0 ELSE 1 + BackslashesBefore(t, c - 1, lo)

\* Position c holds a quote that no backslash of the body starting at lo escapes.
ClosesBody(t, c, lo) == t[c] = DQ /\ BackslashesBefore(t, c, lo) % 2 = 0

\* <<open, close>>: the quotes around the value of a field "reasoning" <ws> : <ws> "..."
\* that starts at i; <<0, 0>> when none starts there.
ReasoningValueAt(t, i) ==
    LET opens == {m \in (i + 12)..Len(t) :
                    \E a, b \in 0..Len(t) :
                        /\ m = i + 12 + a + b
                        /\ SpaceRun(t, i + 11, a)
                        /\ i + 11 + a <= Len(t)
                        /\ t[i + 11 + a] = ":"
                        /\ SpaceRun(t, i + 12 + a, b)
                        /\ t[m] = DQ}
        closes == {c \in (i + 13)..Len(t) :
                    \E m \in opens :
                        /\ c > m
                        /\ ClosesBody(t, c, m + 1)
                        /\ \A e \in (m + 1)..(c - 1) : ~ClosesBody(t, e, m + 1)}
    IN  IF MatchAt(t, i, Quoted(W_reasoning), FALSE) /\ closes # {}
        THEN <<CHOOSE m \in opens : TRUE, CHOOSE c \in closes : TRUE>>
        ELSE <<0, 0>>

ReasoningFieldStarts(t) == {i \in 1..Len(t) : ReasoningValueAt(t, i)[1] # 0}

\* The raw text between the quotes of the first reasoning field, or the placeholder.
FirstFieldReasoning(t) ==
    LET S == ReasoningFieldStarts(t)
        i == CHOOSE x \in S : \A y \in S : x <= y
    IN  IF S = {} THEN Placeholder
        ELSE Slice(t, ReasoningValueAt(t, i)[1] + 1, ReasoningValueAt(t, i)[2] - 1)

\* C12: a verdict produced by strategy 5 has positive_aspects, negative_aspects and
\* key_issues empty, and its reasoning is the captured value of the first reasoning
\* field of the text when there is one, otherwise the placeholder.
C12_SalvagedVerdictShape ==
    (JsonCalled /\ out.res.st = "return" /\ out.res.via = 5) =>
        /\ DOMAIN out.res.dict =
              {W_rating, W_reasoning, W_positive_aspects, W_negative_aspects, W_key_issues}
        /\ out.res.dict[W_positive_aspects] = EmptyList
        /\ out.res.dict[W_negative_aspects] = EmptyList
        /\ out.res.dict[W_key_issues] = EmptyList
        /\ out.res.dict[W_reasoning] = StrVal(FirstFieldReasoning(Strip(text)))

\* Strategy 5 captures a reasoning with an escaped quote in it, backslash included.
C12_Witness ==
    /\ JsonCalled
    /\ out.res.via = 5
    /\ out.res.dict[W_reasoning] = StrVal(<<"r", BSL, DQ, "r">>)

\* Strategy 5 finds no reasoning field and substitutes the placeholder.
C12_PlaceholderWitness ==
    /\ JsonCalled
    /\ out.res.via = 5
    /\ out.res.dict[W_reasoning] = StrVal(Placeholder)

PositionsOf(t, c) == {i \in 1..Len(t) : t[i] = c}
Greatest(S) == CHOOSE i \in S : \A j \in S : j <= i

\* s alone is a well-formed object.
ParsesAsObject(s) == JsonLoads(s).st = "ok" /\ JsonLoads(s).kind = "dict"

\* The text holds two separate objects, each well-formed alone: one from the first
\* '{' of the text, one up to its last '}', and between them something that is not
\* blank.
HoldsTwoObjects(t) ==
    /\ PositionsOf(t, "{") # {}
    /\ PositionsOf(t, "}") # {}
    /\ \E j \in PositionsOf(t, "}"), k \in PositionsOf(t, "{") :
          /\ Lowest(PositionsOf(t, "{")) < j
          /\ j + 1 < k
          /\ k < Greatest(PositionsOf(t, "}"))
          /\ ParsesAsObject(Slice(t, Lowest(PositionsOf(t, "{")), j))
          /\ ParsesAsObject(Slice(t, k, Greatest(PositionsOf(t, "}"))))
          /\ Strip(Slice(t, j + 1, k - 1)) # <<>>

\* C21: a dict returned by strategy 4 is the parse of the span from the first '{'
\* of the stripped text to its last '}', and a text with two separate well-formed
\* objects and prose between them is never recovered by strategy 4.
C21_GreedySpan ==
    (JsonCalled /\ out.res.st = "return") =>
        /\ (out.res.via = 4 =>
              /\ PositionsOf(Strip(text), "{") # {}
              /\ PositionsOf(Strip(text), "}") # {}
              /\ TryLoads(Slice(Strip(text), Lowest(PositionsOf(Strip(text), "{")),
                                Greatest(PositionsOf(Strip(text), "}")))).st = "ok"
              /\ out.res.dict =
                    TryLoads(Slice(Strip(text), Lowest(PositionsOf(Strip(text), "{")),
                                   Greatest(PositionsOf(Strip(text), "}")))).dict)
        /\ (HoldsTwoObjects(Strip(text)) => out.res.via # 4)

\* Two objects with prose between them and no fence: strategies 1 to 4 have failed
\* and the verdict is salvaged from the first object by strategy 5.
C21_Witness ==
    /\ JsonCalled
    /\ HoldsTwoObjects(Strip(text))
    /\ FindSub(text, Fence, 1, FALSE) = 0
    /\ out.res.via = 5
    /\ out.res.dict[W_rating] = StrVal(<<"B">>)

\* What strategy n hands to json.loads on the stripped text t: the text itself, the
\* stripped inside of the first typed fence, of the first fence, the span from the
\* first '{' to the last '}'; has is FALSE when the strategy's search finds nothing.
Candidate(n, t) ==
    CASE n = 1 -> [has |-> TRUE, s |-> t]
      [] n = 2 ->
            IF FindSub(t, Fence \o W_json, 1, FALSE) = 0
                \/ FindSub(t, Fence, FindSub(t, Fence \o W_json, 1, FALSE) + 7, FALSE) = 0
            THEN [has |-> FALSE, s |-> <<>>]
            ELSE [has |-> TRUE,
                  s |-> Strip(Slice(t, FindSub(t, Fence \o W_json, 1, FALSE) + 7,
                                    FindSub(t, Fence, FindSub(t, Fence \o W_json, 1, FALSE) + 7,
                                            FALSE) - 1))]
      [] n = 3 ->
            IF FindSub(t, Fence, 1, FALSE) = 0
                \/ FindSub(t, Fence, FindSub(t, Fence, 1, FALSE) + 3, FALSE) = 0
            THEN [has |-> FALSE, s |-> <<>>]
            ELSE [has |-> TRUE,
                  s |-> Strip(Slice(t, FindSub(t, Fence, 1, FALSE) + 3,
                                    FindSub(t, Fence, FindSub(t, Fence, 1, FALSE) + 3,
                                            FALSE) - 1))]
      [] n = 4 ->
            IF PositionsOf(t, "{") = {} \/ PositionsOf(t, "}") = {}
                \/ Greatest(PositionsOf(t, "}")) < Lowest(PositionsOf(t, "{"))
            THEN [has |-> FALSE, s |-> <<>>]
            ELSE [has |-> TRUE,
                  s |-> Slice(t, Lowest(PositionsOf(t, "{")), Greatest(PositionsOf(t, "}")))]

\* s is well-formed and is not an object with a rating key: an array, a scalar, an
\* object without the key.  The deep array is well-formed by construction.
WellFormedNonVerdict(s) ==
    \/ s = DeepArray
    \/ /\ JsonLoads(s).st = "ok"
       /\ ~(JsonLoads(s).kind = "dict" /\ W_rating \in DOMAIN JsonLoads(s).dict)

\* The cascade with strategies 1 to n counted as failed.
AdvancedPast(n, o) ==
    Cascade(SFail,
            IF n >= 2 THEN SFail ELSE o[2],
            IF n >= 3 THEN SFail ELSE o[3],
            IF n >= 4 THEN SFail ELSE o[4],
            o[5])

\* C22: when the strategies before n have failed and what strategy n parses is a
\* well-formed array, scalar or object without a rating key, strategy n fails too
\* and the call returns what the strategies after n give.
C22_NonVerdictAdvances ==
    JsonCalled =>
        \A n \in 1..4 :
            (/\ \A m \in 1..(n - 1) : Outcomes(text)[m].st = "fail"
             /\ Candidate(n, Strip(text)).has
             /\ WellFormedNonVerdict(Candidate(n, Strip(text)).s))
                => /\ out.res.st = "return"
                   /\ out.res.via # n
                   /\ out.res = AdvancedPast(n, Outcomes(text))

\* The patterns of extract_rating that match the text, and the probe letters found.
MatchingPatterns(t) == {n \in 1..NumPatterns : PatternSearch(n, t) # ""}
ProbeHits(t) == {i \in 1..Len(RatingLetters) : Probe(RatingLetters[i], t)}

\* C23: extract_rating returns the capital of the letter captured by the first
\* pattern, in list order, that matches; when none matches, the first of A, B, C, D
\* that the probe finds, whatever the order of the letters in the text.
C23_PatternsThenPriority ==
    (RatingCalled /\ IsStr(text)) =>
        out.res.rating =
            IF MatchingPatterns(text) # {}
            THEN <<CapitalOf(PatternSearch(Lowest(MatchingPatterns(text)), text))>>
            ELSE IF ProbeHits(text) # {}
            THEN <<RatingLetters[Lowest(ProbeHits(text))]>>
            ELSE W_Unknown

\* No pattern matches, D stands between spaces before a quoted A, and A is returned.
C23_Witness ==
    /\ RatingCalled
    /\ MatchingPatterns(text) = {}
    /\ Probe("D", text)
    /\ Probe("A", text)
    /\ FirstProbeAt("D", text) < FirstProbeAt("A", text)
    /\ out.res.rating = <<"A">>

\* The first and the second pattern capture different letters, the second one's
\* earlier in the text: the first pattern's letter is returned.
C23_PatternOrderWitness ==
    /\ RatingCalled
    /\ {1, 2} \subseteq MatchingPatterns(text)
    /\ CapitalOf(PatternSearch(1, text)) # CapitalOf(PatternSearch(2, text))
    /\ out.res.rating = <<CapitalOf(PatternSearch(1, text))>>

(***************************************************************************)
(* evaluate_response: the retry loop around the evaluator call.  One       *)
(* action is one iteration of `for attempt in range(max_retries)`: the     *)
(* call, the extraction and the return, or the except clause.              *)
(***************************************************************************)
\* The largest max_retries argument tried.
MaxRetriesArg == 3
\* evaluation_text[:500]
ReasoningLimit == 500
\* The '[' characters of a DEEP run that fit below the reasoning limit.
DeepCut == "[~"

\* s[:ReasoningLimit]: a DEEP run is longer than the limit and is cut.
Truncated(s) ==
    LET p == FindSub(s, <<DEEP>>, 1, FALSE)
    IN  IF p # 0 /\ p <= ReasoningLimit THEN Slice(s, 1, p - 1) \o <<DeepCut>>
        ELSE Slice(s, 1, IF Len(s) < ReasoningLimit THEN Len(s) ELSE ReasoningLimit)

\* What the evaluator's message content can be.
Replies == Texts \cup {PyNone}

Success(evaluation, raw) ==
    [returned |-> TRUE, success |-> TRUE, evaluation |-> evaluation,
     raw_response |-> raw, error |-> ""]
Failure(error) ==
    [returned |-> TRUE, success |-> FALSE, evaluation |-> NoDict,
     raw_response |-> <<>>, error |-> error]

\* The dict built around extract_rating's answer.
SniffedEvaluation(rating, evaluation_text) ==
    [k \in {W_rating, W_reasoning, W_positive_aspects, W_negative_aspects, W_key_issues} |->
        IF k = W_rating THEN StrVal(rating)
        ELSE IF k = W_reasoning THEN StrVal(Truncated(evaluation_text))
        ELSE EmptyList]

\* if evaluation_result and 'rating' in evaluation_result: ... else: ..., where
\* sniffed is extract_rating(evaluation_text): the dictionary returned, or "raise"
\* when an exception leaves the try block.
Interpret(evaluation_text, evaluation_result, sniffed) ==
    IF evaluation_result.st = "raise" THEN [st |-> "raise", value |-> Failure("")]
    ELSE IF /\ ~evaluation_result.none
            /\ evaluation_result.dict # NoDict
            /\ W_rating \in DOMAIN evaluation_result.dict
    THEN [st |-> "return", value |-> Success(evaluation_result.dict, evaluation_text)]
    ELSE IF sniffed.st = "raise" THEN [st |-> "raise", value |-> Failure("")]
    ELSE [st |-> "return",
          value |-> Success(SniffedEvaluation(sniffed.rating, evaluation_text),
                            evaluation_text)]

\* The body of the try block once the evaluator answered evaluation_text.
TryBody(evaluation_text) ==
    Interpret(evaluation_text, extract_json_from_response(evaluation_text),
              extract_rating(evaluation_text))

InitEval ==
    /\ text = <<>>
    /\ pc = "loop"
    /\ out = NoOut
    /\ max_retries \in 0..MaxRetriesArg
    /\ attempt = 0
    /\ api_calls = 0
    /\ ret = NoRet
    /\ catalog = <<>>
    /\ scenario_class = <<>>
    /\ user_question = <<>>
    /\ matched = NoMatch
    /\ again = NoOut
    /\ caught = NoCaught
    /\ LoopIdle
    /\ MainIdle

\* except Exception as e: return on the last attempt, else sleep and go on.
\* error is type(e), and str(e) stands in the result as that name.
ExceptClause(error) ==
    /\ caught' = error
    /\ IF attempt = max_retries - 1
       THEN /\ ret' = Failure(error)
            /\ pc' = "returned"
            /\ UNCHANGED attempt
       ELSE /\ attempt' = attempt + 1
            /\ UNCHANGED <<ret, pc>>

\* The rest of the iteration once the try block ended as body says.
AfterTry(reply, body) ==
    IF body.st = "return"
    THEN /\ ret' = body.value
         /\ text' = reply
         /\ pc' = "returned"
         /\ UNCHANGED <<attempt, caught>>
    ELSE /\ ExceptClause(IF IsStr(reply) THEN "RecursionError" ELSE "TypeError")
         /\ UNCHANGED text

\* The evaluator answers with one of the given contents; the answer is interpreted.
AttemptAnsweredFrom(contents) ==
    /\ pc = "loop"
    /\ attempt < max_retries
    /\ api_calls' = api_calls + 1
    /\ \E reply \in contents : AfterTry(reply, TryBody(reply))
    /\ UNCHANGED <<out, again, max_retries, matchVars, loopVars, mainVars>>

AttemptAnswered == AttemptAnsweredFrom(Replies)

\* The evaluator call itself raises (network error, timeout).
AttemptRaised ==
    /\ pc = "loop"
    /\ attempt < max_retries
    /\ api_calls' = api_calls + 1
    /\ ExceptClause("APIError")
    /\ UNCHANGED <<text, out, again, max_retries, matchVars, loopVars, mainVars>>

\* The loop end with one more call of the endpoint before the final return.
LoopExhaustedAfterOneMoreCall ==
    /\ pc = "loop"
    /\ attempt >= max_retries
    /\ ret' = Failure("Max retries exceeded")
    /\ pc' = "returned"
    /\ api_calls' = api_calls + 1
    /\ UNCHANGED <<text, out, again, max_retries, attempt, caught, matchVars, loopVars, mainVars>>

\* The loop ends without a return: return {'success': False, 'error': 'Max retries exceeded'}
LoopExhausted ==
    /\ pc = "loop"
    /\ attempt >= max_retries
    /\ ret' = Failure("Max retries exceeded")
    /\ pc' = "returned"
    /\ UNCHANGED <<text, out, again, max_retries, attempt, api_calls, caught, matchVars,
                   loopVars, mainVars>>

NextEval == AttemptAnswered \/ AttemptRaised \/ LoopExhausted

SpecEval == InitEval /\ [][NextEval]_vars

\* C1: every result returned with success = True carries an evaluation whose
\* rating is one of A, B, C, D or Unknown.
C1_RatingInScale ==
    (ret.returned /\ ret.success) =>
        /\ W_rating \in DOMAIN ret.evaluation
        /\ ret.evaluation[W_rating] \in {StrVal(r) : r \in RatingNames}

\* One content per way an answer can be read: no content, and a verdict, an
\* off-scale verdict, a broken verdict, too deep a nesting and nothing at all, each
\* bare and inside a typed and an untyped fence.
SampleReplies ==
    {PyNone}
        \cup {Wrap(kind, 0, payload) :
                kind \in {"bare", "typed", "untyped"},
                payload \in {VerdictText("B"), Braced(JRating("E")), VerdictWithRawNewline,
                             <<DEEP>>, <<>>}}

AttemptAnsweredSampled == AttemptAnsweredFrom(SampleReplies)

NextEvalSampled == AttemptAnsweredSampled \/ AttemptRaised \/ LoopExhausted

\* The retry loop with its attempts bound to end: the call has a timeout and the
\* sleep between attempts is fixed, so a begun attempt returns or raises.
SpecEvalFair == InitEval /\ [][NextEvalSampled]_vars /\ WF_vars(NextEvalSampled)

\* The endpoint was called once per attempt begun, and never beyond max_retries.
CallsWithinRetries ==
    /\ api_calls <= max_retries
    /\ (pc = "loop" => api_calls = attempt)
    /\ (ret.returned /\ ret.success => api_calls = attempt + 1)
    /\ (ret.returned /\ ~ret.success => api_calls = max_retries)

\* C14: evaluate_response always returns, and calls the endpoint at most max_retries
\* times: every call before a successful one raised, the successful attempt is the
\* last call, and a failure is returned after exactly max_retries calls.
C14_TerminatesWithinRetries == <>(pc = "returned") /\ []CallsWithinRetries

\* All of the largest number of attempts failed and the failure came back.
C14_Witness ==
    /\ ret.returned
    /\ ~ret.success
    /\ max_retries = MaxRetriesArg
    /\ api_calls = MaxRetriesArg

\* C19: when extract_json_from_response yields None on the evaluator's text, the
\* same attempt returns success with rating extract_rating(text), reasoning the
\* first 500 characters and three empty lists; and no text makes an attempt fail
\* and the endpoint be called again.
C19_UnparsedStillSucceeds ==
    /\ (ret.returned /\ ret.success /\ IsStr(text)
            /\ extract_json_from_response(text) = ReturnedNone) =>
          /\ ret.evaluation = SniffedEvaluation(extract_rating(text).rating, text)
          /\ ret.raw_response = text
          /\ api_calls = attempt + 1
    /\ caught # "RecursionError"

(***************************************************************************)
(* find_matching_scenario.  The catalog is the dict scenario_metadata_dict *)
(* in its iteration order: a sequence of entries with distinct keys.  A    *)
(* record's role_user_content is absent, one str, or a list of str.        *)
(***************************************************************************)
RECURSIVE PySplit(_, _, _, _)
\* s.split(): the maximal runs of non-whitespace, scanning from position i.
PySplit(s, i, word, words) ==
    IF i > Len(s) THEN (IF word = <<>> THEN words ELSE Append(words, word))
    ELSE IF IsSpace(s[i])
    THEN PySplit(s, i + 1, <<>>, IF word = <<>> THEN words ELSE Append(words, word))
    ELSE PySplit(s, i + 1, Append(word, s[i]), words)

RECURSIVE PyJoin(_, _)
\* sep.join(words)
PyJoin(sep, words) ==
    IF words = <<>> THEN <<>>
    ELSE IF Len(words) = 1 THEN words[1]
    ELSE words[1] \o sep \o PyJoin(sep, Tail(words))

\* ' '.join(s.split())
Clean(s) == PyJoin(<<SP>>, PySplit(s, 1, <<>>, <<>>))

\* key.startswith(scenario_class)
StartsWith(s, prefix) == Len(prefix) <= Len(s) /\ Slice(s, 1, Len(prefix)) = prefix

\* The test written key == scenario_class instead of startswith.
InClassByEquality(key, class) == key = class

\* if key.startswith(scenario_class)
InClass(key, class) == StartsWith(key, class)

\* The catalog taken whole, the filter on the key left out.
candidate_scenarios_unfiltered(class, cat) == cat

\* The dict comprehension: the entries of the class, in catalog order.
candidate_scenarios(class, cat) == SelectSeq(cat, LAMBDA e : InClass(e.key, class))

\* meta.get('role_user_content', []), a str wrapped into a list.
role_user_content(meta) ==
    IF meta.kind = "str" THEN <<meta.str>>
    ELSE IF meta.kind = "list" THEN meta.list
    ELSE <<>>

\* Containment tested for a non-empty query only.
VariantMatchesNonEmpty(user_question_clean, question_clean) ==
    \/ user_question_clean = question_clean
    \/ /\ user_question_clean # <<>>
       /\ FindSub(question_clean, user_question_clean, 1, FALSE) # 0

\* user_question_clean == question_clean or user_question_clean in question_clean
VariantMatches(user_question_clean, question_clean) ==
    \/ user_question_clean = question_clean
    \/ FindSub(question_clean, user_question_clean, 1, FALSE) # 0

\* The inner for loop over one record's variants reaches `return key, meta`.
RecordMatches(user_question_clean, variants) ==
    \E i \in 1..Len(variants) : VariantMatches(user_question_clean, Clean(variants[i]))

RECURSIVE FirstMatchExactPreferred(_, _, _)
\* The loop with a pass for exact equality before the pass for containment;
\* i counts through both passes.
FirstMatchExactPreferred(candidates, user_question_clean, i) ==
    LET n == Len(candidates)
        j == IF i > n THEN i - n ELSE i
        variants == role_user_content(candidates[j].meta)
    IN  IF i > 2 * n THEN 0
        ELSE IF i <= n /\ \E k \in 1..Len(variants) : user_question_clean = Clean(variants[k])
        THEN j
        ELSE IF i > n /\ RecordMatches(user_question_clean, variants) THEN j
        ELSE FirstMatchExactPreferred(candidates, user_question_clean, i + 1)

RECURSIVE FirstMatch(_, _, _)
\* for key, meta in candidate_scenarios.items(): the index of the first record, from
\* the i-th on, with a matching variant; 0 when the loop ends without a return.
FirstMatch(candidates, user_question_clean, i) ==
    IF i > Len(candidates) THEN 0
    ELSE IF RecordMatches(user_question_clean, role_user_content(candidates[i].meta)) THEN i
    ELSE FirstMatch(candidates, user_question_clean, i + 1)

\* ord() of the characters keys are written with.
CodePoint(c) ==
    CASE c = "-" -> 45 [] c = "0" -> 48 [] c = "1" -> 49 [] c = "2" -> 50
      [] c = "A" -> 65 [] c = "B" -> 66 [] c = "C" -> 67 [] OTHER -> 0

RECURSIVE StrLeq(_, _)
\* a <= b for str: lexicographic by code point.
StrLeq(a, b) ==
    IF a = <<>> THEN TRUE
    ELSE IF b = <<>> THEN FALSE
    ELSE IF CodePoint(Head(a)) # CodePoint(Head(b)) THEN CodePoint(Head(a)) < CodePoint(Head(b))
    ELSE StrLeq(Tail(a), Tail(b))

\* The first candidate in iteration order, the sort left out.
first_key_unsorted(candidates) == candidates[1].key

\* sorted(candidate_scenarios.keys())[0]
first_key(candidates) ==
    LET keys == {candidates[i].key : i \in 1..Len(candidates)}
    IN  CHOOSE k \in keys : \A other \in keys : StrLeq(k, other)

\* candidate_scenarios[key]
MetaOf(candidates, key) ==
    LET i == CHOOSE j \in 1..Len(candidates) : candidates[j].key = key
    IN  candidates[i].meta

NoMeta == [kind |-> "missing", str |-> <<>>, list |-> <<>>]
ReturnedPair(key, meta) == [called |-> TRUE, none |-> FALSE, key |-> key, meta |-> meta]
ReturnedNonePair == [called |-> TRUE, none |-> TRUE, key |-> <<>>, meta |-> NoMeta]

\* The function body from `if not candidate_scenarios` on; hit is the loop's outcome.
Decide(candidates, hit) ==
    IF candidates = <<>> THEN ReturnedNonePair
    ELSE IF hit # 0 THEN ReturnedPair(candidates[hit].key, candidates[hit].meta)
    ELSE ReturnedPair(first_key(candidates), MetaOf(candidates, first_key(candidates)))

MatchIn(candidates, user_question_clean) ==
    Decide(candidates, FirstMatch(candidates, user_question_clean, 1))

find_matching_scenario(class, question, cat) ==
    MatchIn(candidate_scenarios(class, cat), Clean(question))

\* The longest role_user_content list of a record.
MaxVariants == 1

Keys == {<<"A", "2">>, <<"A", "1", "0">>, <<"B", "1">>}
Classes == {<<"A">>, <<"B">>, <<"C">>}
\* Canonical questions: "p<TAB>q" and "p q  r".
CanonicalQuestions == {<<"p", TAB, "q">>, <<"p", SP, "q", SP, SP, "r">>}
Questions ==
    {<<SP, "p", SP, SP, "q", SP>>, <<"p", SP, "q", TAB, "r">>, <<"q">>, <<"z">>,
     <<>>, <<SP, TAB>>}

VariantLists == UNION {[1..n -> CanonicalQuestions] : n \in 0..MaxVariants}
Metas ==
    {NoMeta}
        \cup {[kind |-> "str", str |-> c, list |-> <<>>] : c \in CanonicalQuestions}
        \cup {[kind |-> "list", str |-> <<>>, list |-> l] : l \in VariantLists}

KeyOrders ==
    UNION {{ks \in [1..n -> Keys] : \A i, j \in 1..n : i # j => ks[i] # ks[j]} :
              n \in 0..Cardinality(Keys)}
Catalogs ==
    UNION {{[i \in 1..Len(ks) |-> [key |-> ks[i], meta |-> ms[i]]] :
               ms \in [1..Len(ks) -> Metas]} : ks \in KeyOrders}

InitMatch ==
    /\ text = <<>>
    /\ pc = "start"
    /\ out = NoOut
    /\ max_retries = 0
    /\ attempt = 0
    /\ api_calls = 0
    /\ ret = NoRet
    /\ catalog \in Catalogs
    /\ scenario_class \in Classes
    /\ user_question \in Questions
    /\ matched = NoMatch
    /\ again = NoOut
    /\ caught = NoCaught
    /\ LoopIdle
    /\ MainIdle

CallFindMatchingScenario ==
    /\ pc = "start"
    /\ pc' = "done"
    /\ matched' = find_matching_scenario(scenario_class, user_question, catalog)
    /\ UNCHANGED <<catalog, scenario_class, user_question, extractVars, evalVars, loopVars, mainVars>>

NextMatch == CallFindMatchingScenario

SpecMatch == InitMatch /\ [][NextMatch]_vars

(***************************************************************************)
(* Claims about find_matching_scenario, stated on the catalog itself.      *)
(***************************************************************************)
MatchCalled == matched.called

\* The catalog positions whose key starts with the class.
InCategory == {i \in 1..Len(catalog) : StartsWith(catalog[i].key, scenario_class)}

VariantsAt(i) ==
    LET v == role_user_content(catalog[i].meta)
    IN  {v[k] : k \in 1..Len(v)}

\* Some variant of record i equals the question after normalization.
EqualsQuestion(i) == \E v \in VariantsAt(i) : Clean(v) = Clean(user_question)

\* Some variant of record i equals or contains the normalized question.
HoldsQuestion(i) ==
    \E v \in VariantsAt(i) :
        \/ Clean(v) = Clean(user_question)
        \/ Contains(Clean(v), Clean(user_question))

Hits == {i \in InCategory : HoldsQuestion(i)}
FirstOf(S) == CHOOSE i \in S : \A j \in S : i <= j

\* C5: every record of the category whose canonical question equals the
\* normalized query is the record returned, whatever else the category holds.
C5_EqualRecordReturned ==
    MatchCalled =>
        \A i \in InCategory :
            EqualsQuestion(i) =>
                /\ ~matched.none
                /\ matched.key = catalog[i].key
                /\ matched.meta = catalog[i].meta

C7_SmallestKeyFallback ==
    (MatchCalled /\ InCategory # {} /\ Hits = {}) =>
        /\ ~matched.none
        /\ \A i \in InCategory : StrLeq(matched.key, catalog[i].key)
        /\ \E i \in InCategory :
              matched.key = catalog[i].key /\ matched.meta = catalog[i].meta

\* The fallback returns a key that is not the first of its category in catalog order.
C7_Witness ==
    /\ MatchCalled
    /\ Hits = {}
    /\ Cardinality(InCategory) >= 2
    /\ matched.key # catalog[FirstOf(InCategory)].key

\* C8: (None, None) is returned exactly when no key starts with the class.
C8_NoneIffNoKey ==
    MatchCalled => (matched.none <=> InCategory = {})

\* A class absent from a catalog that has records.
C8_Witness ==
    /\ MatchCalled
    /\ matched.none
    /\ catalog # <<>>

\* The records of the category that have at least one canonical variant.
WithVariant == {i \in InCategory : VariantsAt(i) # {}}

C25_ReturnedKeyInCategory ==
    (MatchCalled /\ ~matched.none) =>
        /\ StartsWith(matched.key, scenario_class)
        /\ \E i \in InCategory :
              matched.key = catalog[i].key /\ matched.meta = catalog[i].meta
        /\ \A i \in 1..Len(catalog) :
              i \notin InCategory => matched.key # catalog[i].key

\* A record of another category, first in the catalog, equals the query; a record
\* of the category that does not hold the query is returned.
C25_Witness ==
    /\ MatchCalled
    /\ ~matched.none
    /\ 1 \notin InCategory
    /\ EqualsQuestion(1)
    /\ Hits = {}
    /\ StartsWith(matched.key, scenario_class)

(***************************************************************************)
(* The evaluation loop of one model (the body of `for model_idx, model`):  *)
(* the stored evaluations are loaded, every record of model_results is     *)
(* resumed, left unmatched, evaluated or caught as a script exception, and *)
(* the entries are saved.  One action is one iteration of the record loop. *)
(***************************************************************************)
\* evaluate_response's default max_retries, which the loop does not override.
DefaultMaxRetries == 3

\* What the endpoint does on one attempt: it raises, or answers with a content.
ApiRaised == [raises |-> TRUE, content |-> <<>>]
Answered(content) == [raises |-> FALSE, content |-> content]

\* The contents the endpoint answers with in the loop: a verdict, an off-scale
\* verdict, prose without a rating, no content.
LoopContents == {VerdictText("A"), Braced(JRating("E")), PlainProse, PyNone}
EndpointOutcomes == {ApiRaised} \cup {Answered(c) : c \in LoopContents}
Endpoints == [1..DefaultMaxRetries -> EndpointOutcomes]

\* The try body of evaluate_response on each content.
ReadContent == [c \in LoopContents |-> TryBody(c)]

\* type(e) of the exception an attempt ends with.
ErrorOf(o) ==
    IF o.raises THEN "APIError" ELSE IF IsStr(o.content) THEN "RecursionError" ELSE "TypeError"

\* The try block of one attempt: the call, then the reading of its content.
TryOf(o) ==
    IF o.raises THEN [st |-> "raise", value |-> Failure("")] ELSE ReadContent[o.content]

RECURSIVE RunAttempts(_, _, _)
\* The last attempt's exception left to propagate instead of being returned.
AttemptOutcomeReraising(endpoint, a, n, body) ==
    IF body.st = "return" THEN [st |-> "return", value |-> body.value, calls |-> a + 1]
    ELSE IF a = n - 1
    THEN [st |-> "raise", value |-> Failure(ErrorOf(endpoint[a + 1])), calls |-> a + 1]
    ELSE RunAttempts(endpoint, a + 1, n)

\* One iteration of `for attempt in range(max_retries)`, its try block ended as body.
AttemptOutcome(endpoint, a, n, body) ==
    IF body.st = "return" THEN [st |-> "return", value |-> body.value, calls |-> a + 1]
    ELSE IF a = n - 1
    THEN [st |-> "return", value |-> Failure(ErrorOf(endpoint[a + 1])), calls |-> a + 1]
    ELSE RunAttempts(endpoint, a + 1, n)

\* The loop from attempt a on, and the return after it.
RunAttempts(endpoint, a, n) ==
    IF a >= n
    THEN [st |-> "return", value |-> Failure("Max retries exceeded"), calls |-> a]
    ELSE AttemptOutcome(endpoint, a, n, TryOf(endpoint[a + 1]))

\* evaluate_response(API_KEY, base_url, evaluator_model, evaluation_prompt) as one
\* call: what it returns and how many calls of the endpoint it made.
evaluate_response(endpoint) == RunAttempts(endpoint, 0, DefaultMaxRetries)

\* build_evaluation_prompt: eval_template.format(**format_args) raises KeyError
\* when the template names a field that format_args does not hold.
build_evaluation_prompt(template) ==
    IF template = "known_fields" THEN [st |-> "return", error |-> ""]
    ELSE [st |-> "raise", error |-> "KeyError"]

\* The list that line 62 wraps around a str stored back into the record.
scenario_metadata_dict_normalized(class, cat) ==
    [i \in 1..Len(cat) |->
        IF InClass(cat[i].key, class) /\ cat[i].meta.kind = "str"
        THEN [key |-> cat[i].key,
              meta |-> [kind |-> "list", str |-> <<>>, list |-> <<cat[i].meta.str>>]]
        ELSE cat[i]]

\* The dict after find_matching_scenario and build_evaluation_prompt have read it:
\* both only read (line 62 rebinds a local name, .get does not insert).
scenario_metadata_dict_after(class, cat) == cat

\* The entry a successful or failed evaluation appends (line 401).
EvaluatedEntry(result, key, eval_result) ==
    [scenario_class |-> result.scenario_class,
     matched_scenario_key |-> key,
     original_question |-> result.prompt_role_user,
     original_response |-> result.response,
     evaluation_success |-> eval_result.success,
     has_evaluation |-> TRUE,
     evaluation |-> eval_result.evaluation,
     evaluation_raw |-> eval_result.raw_response,
     error |-> eval_result.error]

\* The entry of a record left without a scenario, with the class where None belongs.
UnmatchedEntryKeyedByClass(result) ==
    [scenario_class |-> result.scenario_class,
     matched_scenario_key |-> result.scenario_class,
     original_question |-> result.prompt_role_user,
     original_response |-> result.response,
     evaluation_success |-> FALSE,
     has_evaluation |-> FALSE,
     evaluation |-> NoDict,
     evaluation_raw |-> <<>>,
     error |-> "No matching scenario found"]

\* The entry of a record for which no scenario was found (line 384).
UnmatchedEntry(result) ==
    [scenario_class |-> result.scenario_class,
     matched_scenario_key |-> PyNone,
     original_question |-> result.prompt_role_user,
     original_response |-> result.response,
     evaluation_success |-> FALSE,
     has_evaluation |-> FALSE,
     evaluation |-> NoDict,
     evaluation_raw |-> <<>>,
     error |-> "No matching scenario found"]

\* The entry of a record whose processing raised (line 406); error is str(e).
ExceptionEntry(result, error) ==
    [scenario_class |-> result.scenario_class,
     matched_scenario_key |-> PyNone,
     original_question |-> result.prompt_role_user,
     original_response |-> result.response,
     evaluation_success |-> FALSE,
     has_evaluation |-> FALSE,
     evaluation |-> NoDict,
     evaluation_raw |-> <<>>,
     error |-> error]

\* Every stored record taken, the failed ones included.
ExistingFromEveryRecord(records) ==
    LET questions == {records[i].original_question : i \in 1..Len(records)}
    IN  [q \in questions |->
            records[CHOOSE i \in 1..Len(records) :
                        /\ records[i].original_question = q
                        /\ \A j \in (i + 1)..Len(records) :
                              records[j].original_question # q]]

\* A failed record kept for a question that has no successful one.
ExistingFromFailedAsLastResort(records) ==
    LET questions == {records[i].original_question : i \in 1..Len(records)}
        kept(q) == IF \E i \in 1..Len(records) :
                          records[i].original_question = q /\ records[i].evaluation_success
                   THEN {i \in 1..Len(records) :
                            records[i].original_question = q /\ records[i].evaluation_success}
                   ELSE {i \in 1..Len(records) : records[i].original_question = q}
    IN  [q \in questions |->
            records[CHOOSE i \in kept(q) : \A j \in kept(q) : j <= i]]

\* for prev_eval in previous_results: if prev_eval.get('evaluation_success'):
\*     existing_evaluations[prev_eval['original_question']] = prev_eval
ExistingFrom(records) ==
    LET kept == {i \in 1..Len(records) : records[i].evaluation_success}
        questions == {records[i].original_question : i \in kept}
    IN  [q \in questions |->
            records[CHOOSE i \in kept :
                        /\ records[i].original_question = q
                        /\ \A j \in kept : j > i => records[j].original_question # q]]

\* The longest list of records of a model, and of entries of a stored file.
MaxRecords == 2
MaxStored == 2

QuestionKnown == <<"p", SP, "q">>
QuestionUnknown == <<"z">>
Response == <<"o", "k">>

\* Records as main.py saves them: a class, the user prompt, the model's response.
LoopRecords ==
    {[scenario_class |-> c, prompt_role_user |-> q, response |-> Response] :
        c \in {<<"A">>, <<"C">>}, q \in {QuestionKnown, QuestionUnknown}}
ModelResults == UNION {[1..n -> LoopRecords] : n \in 1..MaxRecords}

\* Entries an earlier run has stored: a success for each question and a failure.
StoredVerdict(x) ==
    [k \in {W_rating, W_reasoning} |-> IF k = W_rating THEN StrVal(<<x>>) ELSE StrVal(<<"r">>)]
StoredRecords ==
    {EvaluatedEntry([scenario_class |-> <<"A">>, prompt_role_user |-> QuestionKnown,
                     response |-> <<"o", "l", "d">>],
                    <<"A", "2">>, Success(StoredVerdict("D"), VerdictText("D"))),
     EvaluatedEntry([scenario_class |-> <<"A">>, prompt_role_user |-> QuestionUnknown,
                     response |-> <<"o", "l", "d">>],
                    <<"A", "1", "0">>, Success(StoredVerdict("C"), VerdictText("C"))),
     EvaluatedEntry([scenario_class |-> <<"A">>, prompt_role_user |-> QuestionUnknown,
                     response |-> <<"o", "l", "d">>],
                    <<"A", "1", "0">>, Failure("APIError"))}
\* The previous evaluation file: absent, a JSON list of entries, or the text of such
\* a list cut short or followed by bytes that are not JSON ("unreadable").
PreviousFiles ==
    {NoFile}
        \cup {[kind |-> k, records |-> r] :
                k \in {"list", "unreadable"},
                r \in UNION {[1..n -> StoredRecords] : n \in 0..MaxStored}}

\* Two catalogs: one with records of class A, one without.
LoopCatalogs ==
    {<<[key |-> <<"A", "2">>, meta |-> [kind |-> "str", str |-> <<"p", TAB, "q">>, list |-> <<>>]],
       [key |-> <<"A", "1", "0">>, meta |-> NoMeta]>>,
     <<[key |-> <<"B", "1">>, meta |-> [kind |-> "str", str |-> <<"p", TAB, "q">>, list |-> <<>>]]>>}

Templates == {"known_fields", "unknown_field"}

InitLoop ==
    /\ text = <<>>
    /\ pc = "load"
    /\ out = NoOut
    /\ max_retries = DefaultMaxRetries
    /\ attempt = 0
    /\ api_calls = 0
    /\ ret = NoRet
    /\ catalog \in LoopCatalogs
    /\ scenario_class = <<>>
    /\ user_question = <<>>
    /\ matched = NoMatch
    /\ again = NoOut
    /\ caught = NoCaught
    /\ previous_file \in PreviousFiles
    /\ model_results \in ModelResults
    /\ eval_template \in Templates
    /\ existing_evaluations = <<>>
    /\ idx = 0
    /\ evaluation_results = <<>>
    /\ success_count = 0
    /\ fail_count = 0
    /\ matcher_calls = 0
    /\ evaluator_calls = 0
    /\ api_trace = <<>>
    /\ saved = <<>>
    /\ run = 1
    /\ summary = NoSummary
    /\ MainIdle

idleVars == <<text, out, max_retries, attempt, api_calls, ret, scenario_class,
              user_question, matched, again, caught, mainVars>>

\* Lines 340-354: the stored successes by question; an absent or unreadable file
\* leaves the dict empty.
LoadExistingEvaluations ==
    /\ pc = "load"
    /\ pc' = "loop"
    /\ existing_evaluations' =
          IF previous_file.kind = "list" THEN ExistingFrom(previous_file.records) ELSE <<>>
    /\ UNCHANGED <<idleVars, run, summary, catalog, previous_file, model_results, eval_template, idx,
                   evaluation_results, success_count, fail_count, matcher_calls,
                   evaluator_calls, api_trace, saved>>

\* The record the loop is at.
Current == model_results[idx + 1]
AtRecord == pc = "loop" /\ idx < Len(model_results)
Resumable == Current.prompt_role_user \in DOMAIN existing_evaluations
MatchOfCurrent ==
    find_matching_scenario(Current.scenario_class, Current.prompt_role_user, catalog)
\* if not matched_key
KeyMissing(m) == m.none \/ m.key = <<>>

\* Lines 373-377: the stored entry is appended and the record is done.
ProcessResumed ==
    /\ AtRecord
    /\ Resumable
    /\ evaluation_results' =
          Append(evaluation_results, existing_evaluations[Current.prompt_role_user])
    /\ success_count' = success_count + 1
    /\ idx' = idx + 1
    /\ api_trace' = <<>>
    /\ UNCHANGED <<idleVars, run, summary, pc, catalog, previous_file, model_results, eval_template,
                   existing_evaluations, fail_count, matcher_calls, evaluator_calls, saved>>

\* The unmatched record counted but its entry never appended.
ProcessUnmatchedNotRecorded ==
    /\ AtRecord
    /\ ~Resumable
    /\ KeyMissing(MatchOfCurrent)
    /\ matcher_calls' = matcher_calls + 1
    /\ fail_count' = fail_count + 1
    /\ idx' = idx + 1
    /\ api_trace' = <<>>
    /\ UNCHANGED <<idleVars, run, summary, pc, catalog, previous_file, model_results, eval_template,
                   existing_evaluations, evaluation_results, success_count,
                   evaluator_calls, saved>>

\* Lines 380-385: no scenario for the record.
ProcessUnmatched ==
    /\ AtRecord
    /\ ~Resumable
    /\ KeyMissing(MatchOfCurrent)
    /\ matcher_calls' = matcher_calls + 1
    /\ catalog' = scenario_metadata_dict_after(Current.scenario_class, catalog)
    /\ fail_count' = fail_count + 1
    /\ evaluation_results' = Append(evaluation_results, UnmatchedEntry(Current))
    /\ idx' = idx + 1
    /\ api_trace' = <<>>
    /\ UNCHANGED <<idleVars, run, summary, pc, previous_file, model_results, eval_template,
                   existing_evaluations, success_count, evaluator_calls, saved>>

\* Lines 389 and 403-406: building the prompt raises and the except clause of the
\* loop records the record as failed.
ProcessPromptRaised ==
    /\ AtRecord
    /\ ~Resumable
    /\ ~KeyMissing(MatchOfCurrent)
    /\ build_evaluation_prompt(eval_template).st = "raise"
    /\ matcher_calls' = matcher_calls + 1
    /\ catalog' = scenario_metadata_dict_after(Current.scenario_class, catalog)
    /\ fail_count' = fail_count + 1
    /\ evaluation_results' =
          Append(evaluation_results,
                 ExceptionEntry(Current, build_evaluation_prompt(eval_template).error))
    /\ idx' = idx + 1
    /\ api_trace' = <<>>
    /\ UNCHANGED <<idleVars, run, summary, pc, previous_file, model_results, eval_template,
                   existing_evaluations, success_count, evaluator_calls, saved>>

\* Lines 392-406 once evaluate_response ended as r: a returned dict is counted and
\* appended; an exception would be caught by the loop's except clause.
AfterEvaluation(r) ==
    /\ evaluator_calls' = evaluator_calls + r.calls
    /\ IF r.st = "return"
       THEN /\ evaluation_results' =
                  Append(evaluation_results,
                         EvaluatedEntry(Current, MatchOfCurrent.key, r.value))
            /\ IF r.value.success
               THEN success_count' = success_count + 1 /\ UNCHANGED fail_count
               ELSE fail_count' = fail_count + 1 /\ UNCHANGED success_count
       ELSE /\ evaluation_results' =
                  Append(evaluation_results, ExceptionEntry(Current, r.value.error))
            /\ fail_count' = fail_count + 1
            /\ UNCHANGED success_count

\* Lines 380-401: the record is matched, the prompt built, the evaluator asked.
ProcessEvaluated ==
    /\ AtRecord
    /\ ~Resumable
    /\ ~KeyMissing(MatchOfCurrent)
    /\ build_evaluation_prompt(eval_template).st = "return"
    /\ matcher_calls' = matcher_calls + 1
    /\ catalog' = scenario_metadata_dict_after(Current.scenario_class, catalog)
    /\ \E endpoint \in Endpoints :
          /\ api_trace' = SubSeq(endpoint, 1, evaluate_response(endpoint).calls)
          /\ AfterEvaluation(evaluate_response(endpoint))
    /\ idx' = idx + 1
    /\ UNCHANGED <<idleVars, run, summary, pc, previous_file, model_results, eval_template,
                   existing_evaluations, saved>>

\* Line 411: save_evaluation_results(task, model, evaluation_results)
SaveEvaluationResults ==
    /\ pc = "loop"
    /\ idx = Len(model_results)
    /\ pc' = "saved"
    /\ saved' = evaluation_results
    /\ UNCHANGED <<idleVars, run, summary, catalog, previous_file, model_results, eval_template,
                   existing_evaluations, idx, evaluation_results, success_count,
                   fail_count, matcher_calls, evaluator_calls, api_trace>>

NextLoop ==
    \/ LoadExistingEvaluations
    \/ ProcessResumed
    \/ ProcessUnmatched
    \/ ProcessPromptRaised
    \/ ProcessEvaluated
    \/ SaveEvaluationResults

SpecLoop == InitLoop /\ [][NextLoop]_vars

\* json.load of what json.dump wrote (lines 239 and 345): an entry holds only str,
\* bool, None, dicts and empty lists, which the file gives back as they were; an
\* entry appended without an 'evaluation' key comes back without it.
ReadBack(entries) ==
    [i \in 1..Len(entries) |->
        [k \in DOMAIN entries[i] |-> entries[i][k]]]

\* The evaluation of the same model started again over the same records after the
\* first run has saved: lines 340-358 find the file that line 411 wrote.
RerunEvaluation ==
    /\ pc = "saved"
    /\ run = 1
    /\ run' = 2
    /\ pc' = "loop"
    /\ previous_file' = [kind |-> "list", records |-> ReadBack(saved)]
    /\ existing_evaluations' = ExistingFrom(ReadBack(saved))
    /\ idx' = 0
    /\ evaluation_results' = <<>>
    /\ success_count' = 0
    /\ fail_count' = 0
    /\ matcher_calls' = 0
    /\ evaluator_calls' = 0
    /\ api_trace' = <<>>
    /\ UNCHANGED <<idleVars, summary, catalog, model_results, eval_template, saved>>

NextRerun == NextLoop \/ RerunEvaluation

SpecRerun == InitLoop /\ [][NextRerun]_vars

(***************************************************************************)
(* generate_evaluation_summary for the one model of the run: the loop over *)
(* the model's results, up to the statistics or to the exception that ends *)
(* it.                                                                     *)
(***************************************************************************)
\* The keys of summary['overall_statistics'] and of a new rating_distribution.
SummaryRatings ==
    {StrVal(<<"A">>), StrVal(<<"B">>), StrVal(<<"C">>), StrVal(<<"D">>), StrVal(W_Unknown)}

\* model_stats before the loop over the results.
EmptyStats(results) ==
    [total_scenarios |-> Len(results),
     successful_evaluations |-> 0,
     failed_evaluations |-> 0,
     rating_distribution |-> [r \in SummaryRatings |-> 0]]

SummaryReturned(stats) == [called |-> TRUE, st |-> "return", error |-> "", stats |-> stats]
\* The exception leaves the function; stats is what had been counted before the
\* result that raised, and is lost with the call.
SummaryRaised(error, stats) == [called |-> TRUE, st |-> "raise", error |-> error, stats |-> stats]

\* The body of `if result['evaluation_success']` after the counter: the exception it
\* ends with, "" when it runs through.  A list or dict rating cannot be a dict key,
\* a rating outside overall_statistics has no counter there to add to, and a
\* number as reasoning cannot be sliced.
SuccessBranchError(result) ==
    IF ~result.has_evaluation \/ W_rating \notin DOMAIN result.evaluation THEN "KeyError"
    ELSE IF result.evaluation[W_rating][1] \in {"list", "dict"} THEN "TypeError"
    ELSE IF result.evaluation[W_rating] \notin SummaryRatings THEN "KeyError"
    ELSE IF W_reasoning \in DOMAIN result.evaluation
            /\ result.evaluation[W_reasoning][1] = "num" THEN "TypeError"
    ELSE ""

RECURSIVE SummaryLoop(_, _, _)
\* for result in results, from the i-th on
SummaryLoop(results, i, stats) ==
    IF i > Len(results) THEN SummaryReturned(stats)
    ELSE IF results[i].evaluation_success
    THEN IF SuccessBranchError(results[i]) # ""
         THEN SummaryRaised(SuccessBranchError(results[i]), stats)
         ELSE SummaryLoop(results, i + 1,
                          [stats EXCEPT
                              !.successful_evaluations = @ + 1,
                              !.rating_distribution[results[i].evaluation[W_rating]] = @ + 1])
    ELSE SummaryLoop(results, i + 1, [stats EXCEPT !.failed_evaluations = @ + 1])

generate_evaluation_summary(results) == SummaryLoop(results, 1, EmptyStats(results))

\* Line 427: summary = generate_evaluation_summary(task, all_evaluation_results)
GenerateEvaluationSummary ==
    /\ pc = "saved"
    /\ pc' = "summarised"
    /\ summary' = generate_evaluation_summary(evaluation_results)
    /\ UNCHANGED <<idleVars, run, catalog, previous_file, model_results, eval_template,
                   existing_evaluations, idx, evaluation_results, success_count,
                   fail_count, matcher_calls, evaluator_calls, api_trace, saved>>

NextSummary == NextLoop \/ GenerateEvaluationSummary

SpecSummary == InitLoop /\ [][NextSummary]_vars

(***************************************************************************)
(* Claims about the evaluation loop.                                       *)
(***************************************************************************)
\* The last evaluate_response call used all its attempts and each of them raised:
\* the endpoint raised, or it answered without a content.
AllAttemptsRaised ==
    /\ Len(api_trace) = DefaultMaxRetries
    /\ \A i \in 1..Len(api_trace) : api_trace[i].raises \/ api_trace[i].content = PyNone

\* C15: no exception escapes evaluate_response: when every attempt raised, the
\* loop gets a result with success False, an error text and no evaluation, records
\* the item under its matched key with evaluation_success False and goes on.
C15_FailureRecorded ==
    (idx > 0 /\ AllAttemptsRaised) =>
        /\ pc \in {"loop", "saved"}
        /\ Len(evaluation_results) = idx
        /\ ~evaluation_results[idx].evaluation_success
        /\ evaluation_results[idx].error \in {"APIError", "TypeError"}
        /\ evaluation_results[idx].evaluation = NoDict
        /\ evaluation_results[idx].has_evaluation
        /\ evaluation_results[idx].matched_scenario_key # PyNone
        /\ evaluation_results[idx].original_question = model_results[idx].prompt_role_user

\* The first of two records failed at the evaluator and the loop is at the second.
C15_Witness ==
    /\ pc = "loop"
    /\ AllAttemptsRaised
    /\ idx = 1
    /\ Len(model_results) = 2
    /\ ~evaluation_results[1].evaluation_success

\* C16: every record gives exactly one entry, in input order, however it ended;
\* the counters add up to the records processed, the loop can always take its next
\* record, and what is saved holds one entry per record.
C16_OneEntryPerRecord ==
    /\ Len(evaluation_results) = idx
    /\ success_count + fail_count = idx
    /\ \A i \in 1..idx :
          evaluation_results[i].original_question = model_results[i].prompt_role_user
    /\ (AtRecord => ENABLED NextLoop)
    /\ (pc = "saved" =>
          /\ Len(evaluation_results) = Len(model_results)
          /\ saved = evaluation_results)

\* A record that raised is followed by one that was evaluated, and both are saved.
C16_Witness ==
    /\ pc = "saved"
    /\ Len(saved) = 2
    /\ saved[1].error = "No matching scenario found"
    /\ saved[2].evaluation_success
    /\ saved[2].has_evaluation

\* The stored records with evaluation_success true and the given question.
StoredSuccessesFor(q) ==
    {previous_file.records[i] : i \in
        {j \in 1..Len(previous_file.records) :
            /\ previous_file.kind = "list"
            /\ previous_file.records[j].evaluation_success
            /\ previous_file.records[j].original_question = q}}

\* C17: when the previous file holds a successful record for the current record's
\* question, the step appends that stored record as it is and calls neither
\* find_matching_scenario nor the evaluator.
C17_ResumedVerbatim ==
    [][(AtRecord /\ StoredSuccessesFor(Current.prompt_role_user) # {}) =>
          /\ Len(evaluation_results') = Len(evaluation_results) + 1
          /\ evaluation_results'[idx + 1] \in StoredSuccessesFor(Current.prompt_role_user)
          /\ SubSeq(evaluation_results', 1, idx) = evaluation_results
          /\ matcher_calls' = matcher_calls
          /\ evaluator_calls' = evaluator_calls
          /\ idx' = idx + 1]_vars

\* A stored entry of another class stands for the first record; nothing was called.
C17_Witness ==
    /\ idx >= 1
    /\ evaluation_results[1] \in StoredRecords
    /\ evaluation_results[1].scenario_class # model_results[1].scenario_class
    /\ matcher_calls = 0
    /\ evaluator_calls = 0

\* No key of the catalog starts with the current record's class.
NoKeyOfClass ==
    \A i \in 1..Len(catalog) : ~StartsWith(catalog[i].key, Current.scenario_class)

\* C18: for a record that is not resumed and has no scenario, the step appends an
\* entry with evaluation_success False, matched_scenario_key None and the error
\* 'No matching scenario found', adds one to fail_count, calls no evaluator and
\* leaves the loop at the next record.
C18_UnmatchedRecorded ==
    [][(AtRecord /\ ~Resumable /\ NoKeyOfClass) =>
          /\ evaluation_results' =
                Append(evaluation_results,
                       [scenario_class |-> Current.scenario_class,
                        matched_scenario_key |-> PyNone,
                        original_question |-> Current.prompt_role_user,
                        original_response |-> Current.response,
                        evaluation_success |-> FALSE,
                        has_evaluation |-> FALSE,
                        evaluation |-> NoDict,
                        evaluation_raw |-> <<>>,
                        error |-> "No matching scenario found"])
          /\ fail_count' = fail_count + 1
          /\ success_count' = success_count
          /\ evaluator_calls' = evaluator_calls
          /\ idx' = idx + 1
          /\ pc' = "loop"]_vars

\* An unmatched first record, then a second record evaluated with success.
C18_Witness ==
    /\ idx = 2
    /\ evaluation_results[1].error = "No matching scenario found"
    /\ evaluation_results[1].matched_scenario_key = PyNone
    /\ evaluation_results[2].evaluation_success
    /\ fail_count = 1

\* C20: no step of the loop changes a key or a record of scenario_metadata_dict.
C20_CatalogReadOnly == [][catalog' = catalog]_vars

\* Two records went through the matcher, one through the evaluator, with a catalog
\* whose first record holds its question as a str.
C20_Witness ==
    /\ pc = "saved"
    /\ matcher_calls = 2
    /\ evaluator_calls >= 1
    /\ catalog[1].meta.kind = "str"
    /\ catalog[1].key = <<"A", "2">>

\* The entries the previous file's text holds, readable or not.
StoredEntries == {previous_file.records[i] : i \in 1..Len(previous_file.records)}

\* C26: a record whose question has no stored success (its stored records failed,
\* or the file could not be read) is not resumed: the step calls
\* find_matching_scenario, appends an entry that is none of the stored ones, and
\* calls the evaluator when the record has a scenario and the prompt is built; from
\* an unreadable file nothing is loaded.
C26_FailedNeverReused ==
    [][/\ (AtRecord /\ StoredSuccessesFor(Current.prompt_role_user) = {}) =>
             /\ matcher_calls' = matcher_calls + 1
             /\ Len(evaluation_results') = idx + 1
             /\ evaluation_results'[idx + 1] \notin StoredEntries
             /\ (~NoKeyOfClass /\ eval_template = "known_fields") =>
                    evaluator_calls' > evaluator_calls
       /\ (previous_file.kind # "list" => existing_evaluations' = <<>>)]_vars

\* The only stored record of the first question is a failed one, and the record has
\* been matched and evaluated again, this time with success.
C26_Witness ==
    /\ idx >= 1
    /\ previous_file.kind = "list"
    /\ \E e \in StoredEntries :
          ~e.evaluation_success /\ e.original_question = model_results[1].prompt_role_user
    /\ StoredSuccessesFor(model_results[1].prompt_role_user) = {}
    /\ matcher_calls >= 1
    /\ evaluator_calls >= 1
    /\ evaluation_results[1].evaluation_success

\* The unreadable file's text holds a success for the first question, and the record
\* went through the matcher all the same.
C26_UnreadableWitness ==
    /\ idx = 1
    /\ previous_file.kind = "unreadable"
    /\ \E e \in StoredEntries :
          e.evaluation_success /\ e.original_question = model_results[1].prompt_role_user
    /\ matcher_calls = 1
    /\ evaluation_results[1] \notin StoredEntries

\* The first run evaluated every record with success; previous_file is what it saved.
FirstRunAllSucceeded ==
    /\ run = 2
    /\ \A i \in 1..Len(previous_file.records) : previous_file.records[i].evaluation_success

\* C27: the re-run after a run in which every record succeeded calls the evaluator
\* not once and saves a list equal, entry by entry, to the list the first run
\* saved, also when a question occurs in more than one record.
C27_RerunSavesTheSame ==
    (FirstRunAllSucceeded /\ pc = "saved") =>
        /\ evaluator_calls = 0
        /\ saved = previous_file.records

RECURSIVE SumOver(_, _)
\* The sum of the counts of a rating distribution over the ratings of S.
SumOver(dist, S) ==
    IF S = {} THEN 0
    ELSE LET r == CHOOSE x \in S : TRUE
         IN  dist[r] + SumOver(dist, S \ {r})

\* C28: for every result list of the loop the summary is computed without an
\* exception, successful_evaluations + failed_evaluations = total_scenarios, and the
\* counts of rating_distribution add up to successful_evaluations.
C28_SummaryCountsOnce ==
    summary.called =>
        /\ summary.st = "return"
        /\ summary.stats.successful_evaluations + summary.stats.failed_evaluations
              = summary.stats.total_scenarios
        /\ SumOver(summary.stats.rating_distribution,
                   DOMAIN summary.stats.rating_distribution)
              = summary.stats.successful_evaluations

(***************************************************************************)
(* main.py: LLM_request, the call of the model under test with its retry   *)
(* loop.  One action per iteration of `for attempt in range(max_retries)`. *)
(***************************************************************************)
MaxRequestRetries == 3

\* str.lower() over the letters of the error messages used here.
LowerLetter(c) ==
    CASE c = "T" -> "t" [] c = "G" -> "g" [] c = "R" -> "r" [] OTHER -> Lower(c)

\* error_msg.lower()
str_lower(s) == [i \in 1..Len(s) |-> LowerLetter(s[i])]

W_timeout == <<"t", "i", "m", "e", "o", "u", "t">>

\* Messages of the exceptions, str(e).
M_timed_out == <<"R", "e", "q", "u", "e", "s", "t", SP, "t", "i", "m", "e", "d", SP,
                 "o", "u", "t", ".">>
M_read_timeout == <<"r", "e", "a", "d", SP, "t", "i", "m", "e", "o", "u", "t">>
M_Gateway_Timeout == <<"G", "a", "t", "e", "w", "a", "y", SP, "T", "i", "m", "e", "o",
                       "u", "t">>
M_Connection_error == <<"C", "o", "n", "n", "e", "c", "t", "i", "o", "n", SP, "e", "r",
                        "r", "o", "r", ".">>
M_api_key == <<"a", "p", "i", "_", "k", "e", "y">>
M_index == <<"i", "n", "d", "e", "x">>
M_Max_retries_exceeded == <<"Max retries exceeded">>

\* What one pass through the try block can end with.  An exception carries the name
\* of its type, its message, and the statement that raised it: the OpenAI(...)
\* constructor ("client", before any call), chat.completions.create ("create"), or
\* response.choices[0].message.content on a reply without choices ("reply").
RaisedBy(type, msg, at) == [raised |-> TRUE, type |-> type, msg |-> msg, at |-> at]

RepliedWith(content) == [raised |-> FALSE, content |-> content]

\* Exceptions that report a request that ran out of time.
TimeoutErrors ==
    {RaisedBy("Timeout", M_timed_out, "create"),
     RaisedBy("APITimeoutError", M_timed_out, "create"),
     RaisedBy("ReadTimeout", M_read_timeout, "create"),
     RaisedBy("InternalServerError", M_Gateway_Timeout, "create")}

\* Exceptions that report something else.
OtherErrors ==
    {RaisedBy("APIConnectionError", M_Connection_error, "create"),
     RaisedBy("OpenAIError", M_api_key, "client"),
     RaisedBy("IndexError", M_index, "reply")}

RequestErrors == TimeoutErrors \cup OtherErrors

\* message.content of a reply: a text, the empty text, or None.
ReplyContents == {<<"o", "k">>, <<>>, PyNone}

AttemptOutcomes == RequestErrors \cup {RepliedWith(c) : c \in ReplyContents}

\* The mutation of is_timeout that takes every exception for a timeout.
is_timeout_always(e) == TRUE

\* is_timeout = 'timeout' in error_msg.lower() or error_type == 'Timeout'
is_timeout(e) == Contains(str_lower(e.msg), W_timeout) \/ e.type = "Timeout"

\* is_last_attempt = (attempt == max_retries - 1)
is_last_attempt(req) == req.attempt = req.max_retries - 1

NoResult == [returned |-> FALSE]

\* The dictionary returned from the try block.
RequestSuccess(content) ==
    [returned |-> TRUE,
     keys |-> {"model", "scenario_class", "prompt", "response", "success",
               "elapsed_time"},
     success |-> TRUE, response |-> content, error |-> PyNone]

\* The dictionary returned from the except block.
RequestFailure(error_msg) ==
    [returned |-> TRUE,
     keys |-> {"model", "scenario_class", "prompt", "response", "success", "error",
               "elapsed_time"},
     success |-> FALSE, response |-> <<>>, error |-> error_msg]

\* return {'success': False, 'error': 'Max retries exceeded'}
RequestGaveUp ==
    [returned |-> TRUE, keys |-> {"success", "error"},
     success |-> FALSE, response |-> PyNone, error |-> M_Max_retries_exceeded]

\* LLM_request(..., max_retries) on entry.
RequestStart(n) ==
    [called |-> TRUE, max_retries |-> n, attempt |-> 0, calls |-> 0,
     start_time |-> FALSE, trace |-> <<>>, result |-> NoResult]

\* One iteration of the loop ending with outcome o.  start_time is assigned before
\* the constructor; the endpoint is called unless the constructor raised; the
\* iteration returns unless the exception is a timeout on an attempt before the last.
AttemptStep(req, o) ==
    LET made == IF o.raised /\ o.at = "client" THEN 0 ELSE 1
        base == [req EXCEPT !.start_time = TRUE,
                            !.calls = @ + made,
                            !.trace = Append(@, o)]
    IN  IF ~o.raised THEN [base EXCEPT !.result = RequestSuccess(o.content)]
        ELSE IF is_timeout(o) /\ ~is_last_attempt(req)
             THEN [base EXCEPT !.attempt = @ + 1]
        ELSE [base EXCEPT !.result = RequestFailure(o.msg)]

\* Everything evaluate.py owns: untouched while main.py runs.
evaluateVars == <<extractVars, evalVars, matchVars, loopVars>>

InitRequest ==
    /\ text = <<>>
    /\ pc = "request"
    /\ out = NoOut
    /\ max_retries = 0
    /\ attempt = 0
    /\ api_calls = 0
    /\ ret = NoRet
    /\ catalog = <<>>
    /\ scenario_class = <<>>
    /\ user_question = <<>>
    /\ matched = NoMatch
    /\ again = NoOut
    /\ caught = NoCaught
    /\ LoopIdle
    /\ request \in {RequestStart(n) : n \in 0..MaxRequestRetries}
    /\ tests = NoTests

\* The try block runs to its return.
RequestAnswered ==
    /\ pc = "request"
    /\ request.attempt < request.max_retries
    /\ \E c \in ReplyContents :
          request' = AttemptStep(request, RepliedWith(c))
    /\ pc' = "returned"
    /\ UNCHANGED <<evaluateVars, tests>>

\* except Exception as e: continue on a timeout before the last attempt, else return.
RequestRaised ==
    /\ pc = "request"
    /\ request.attempt < request.max_retries
    /\ \E e \in RequestErrors :
          /\ request' = AttemptStep(request, e)
          /\ pc' = IF request'.result.returned THEN "returned" ELSE "request"
    /\ UNCHANGED <<evaluateVars, tests>>

\* range(max_retries) is empty: the return after the loop.
RequestExhausted ==
    /\ pc = "request"
    /\ request.attempt >= request.max_retries
    /\ request' = [request EXCEPT !.result = RequestGaveUp]
    /\ pc' = "returned"
    /\ UNCHANGED <<evaluateVars, tests>>

NextRequest == RequestAnswered \/ RequestRaised \/ RequestExhausted

SpecRequest == InitRequest /\ [][NextRequest]_vars

\* Every attempt ends: create() is called with timeout=120 or 180 seconds.
SpecRequestFair == SpecRequest /\ WF_vars(NextRequest)

\* The attempts made so far that were followed by another one.
Repeated(req) ==
    IF req.result.returned THEN 1..(Len(req.trace) - 1) ELSE 1..Len(req.trace)

RequestWithinRetries ==
    LET n == Len(request.trace)
        last == request.trace[n]
    IN  /\ request.calls <= request.max_retries
        /\ request.calls <= n
        /\ \A i \in Repeated(request) :
              /\ request.trace[i] \in TimeoutErrors
              /\ i < request.max_retries
        /\ request.result.returned =>
              /\ "success" \in request.result.keys
              /\ request.result.success \in BOOLEAN
              /\ n = 0 => request.max_retries = 0 /\ ~request.result.success
              /\ n > 0 /\ ~last.raised =>
                    request.result.success /\ request.result.response = last.content
              /\ n > 0 /\ last.raised =>
                    ~request.result.success /\ request.result.error = last.msg

\* C29: LLM_request always returns, a dictionary with a success field, after at most
\* max_retries calls of the endpoint: every attempt that was followed by another one
\* had failed with a timeout error and was not the last of max_retries, so any other
\* error, and any error on the last attempt, returned the failure at once.
C29_RetriesOnlyTimeouts == <>(pc = "returned") /\ []RequestWithinRetries

\* Every attempt of the largest number timed out; the last one returned the failure.
C29_Witness ==
    /\ pc = "returned"
    /\ request.max_retries = MaxRequestRetries
    /\ request.calls = MaxRequestRetries
    /\ Len(request.trace) = MaxRequestRetries
    /\ request.trace[MaxRequestRetries].raised
    /\ is_timeout(request.trace[MaxRequestRetries])
    /\ ~request.result.success

\* A connection error on the first of several attempts returned at once.
C29_OtherErrorWitness ==
    /\ pc = "returned"
    /\ request.max_retries > 1
    /\ request.calls = 1
    /\ request.trace = <<RaisedBy("APIConnectionError", M_Connection_error, "create")>>
    /\ ~request.result.success

(***************************************************************************)
(* main.py: the test loop over one model's prompts and its save step.      *)
(* Line 11 imports the name tqdmß while the loop calls tqdm; tqdm is taken  *)
(* here as the progress bar it names, which yields the list's items in     *)
(* order.  One action per prompt, one for the save step.                   *)
(***************************************************************************)
MaxScenarios == 2
MaxPrompts == 2

\* max_retries=2 in the loop's call of LLM_request.
TestMaxRetries == 2

RECURSIVE RequestRun(_, _)
\* The loop of LLM_request run to its return over the outcomes of its attempts.
RequestRun(req, outcomes) ==
    IF req.result.returned THEN req
    ELSE IF req.attempt >= req.max_retries THEN [req EXCEPT !.result = RequestGaveUp]
    ELSE RequestRun(AttemptStep(req, Head(outcomes)), Tail(outcomes))

\* LLM_request(..., max_retries=n): the dictionary it returns.
LLM_request(n, outcomes) == RequestRun(RequestStart(n), outcomes).result

\* What the attempts of one call can meet.
RequestScripts == [1..TestMaxRetries -> AttemptOutcomes]

\* The dictionaries the loop's call can return.
RequestResults == {LLM_request(TestMaxRetries, script) : script \in RequestScripts}

\* The prompts of the task configuration.
PromptTexts == {<<"q", "1">>, <<"q", "2">>}
SystemContent == <<"s", "y", "s">>

PromptLists == UNION {[1..n -> PromptTexts] : n \in 0..MaxPrompts}

\* task_config: scenario classes (the keys, distinct) with their prompts.
ScenarioClasses == << <<"S", "1">>, <<"S", "2">>, <<"S", "3">> >>

ScenarioAt(k, prompts) ==
    [scenario_class |-> ScenarioClasses[k],
     role_system_content |-> SystemContent,
     role_user_content |-> prompts]

TaskConfigs ==
    UNION {{[k \in 1..n |-> ScenarioAt(k, f[k])] : f \in [1..n -> PromptLists]} :
           n \in 0..MaxScenarios}

RECURSIVE PromptsOf(_)
\* The (scenario, prompt) pairs in the order the two nested for loops visit them.
PromptsOf(scenarios) ==
    IF scenarios = <<>> THEN <<>>
    ELSE LET s == Head(scenarios)
         IN  [i \in 1..Len(s.role_user_content) |->
                 [scenario_class |-> s.scenario_class,
                  role_system_content |-> s.role_system_content,
                  prompt |-> s.role_user_content[i]]]
             \o PromptsOf(Tail(scenarios))

NotWritten == [written |-> FALSE]
Written(content) == [written |-> TRUE, content |-> content]

\* The dictionary LLM_request returned, with the arguments it echoes.
LLM_answer_of(p, result) ==
    [scenario_class |-> p.scenario_class,
     prompt |-> <<p.role_system_content, p.prompt>>,
     result |-> result]

\* The dictionary appended to failed_scenarios; 'Unknown error' stands for a
\* result without an error key.
FailedScenario(p, result) ==
    [scenario_class |-> p.scenario_class,
     role_system_content |-> p.role_system_content,
     role_user_content |-> p.prompt,
     error |-> IF "error" \in result.keys THEN result.error ELSE <<"Unknown error">>]

\* LLM_results_save: one record per answer, in order.
LLM_results_save(LLM_answers) ==
    [i \in 1..Len(LLM_answers) |->
        [scenario_class |-> LLM_answers[i].scenario_class,
         prompt_role_system |-> LLM_answers[i].prompt[1],
         prompt_role_user |-> LLM_answers[i].prompt[2],
         response |-> LLM_answers[i].result.response]]

\* The mutation of the save step that writes the result file whatever the list holds.
ResultFileAlways(LLM_answers) == Written(LLM_results_save(LLM_answers))

\* if LLM_answers: LLM_results_save(...)
ResultFileAfter(LLM_answers) ==
    IF LLM_answers # <<>> THEN Written(LLM_results_save(LLM_answers)) ELSE NotWritten

\* if failed_scenarios: save_failed_scenarios(...), which returns on an empty list.
FailedFileAfter(failed_scenarios) ==
    IF failed_scenarios # <<>> THEN Written(failed_scenarios) ELSE NotWritten

\* Lines 363-375: the branch on LLM_answer.get('success', False).
TestsAfter(t, p, result) ==
    LET base == [t EXCEPT !.sent = @ + 1,
                          !.returned = Append(@, LLM_answer_of(p, result))]
    IN  IF result.success
        THEN [base EXCEPT !.LLM_answers = Append(@, LLM_answer_of(p, result)),
                          !.success_count = @ + 1]
        ELSE [base EXCEPT !.fail_count = @ + 1,
                          !.failed_scenarios = Append(@, FailedScenario(p, result))]

\* Lines 334-340 for one model.
TestsStart(task_config) ==
    [started |-> TRUE, prompts |-> PromptsOf(task_config), sent |-> 0,
     returned |-> <<>>, LLM_answers |-> <<>>, failed_scenarios |-> <<>>,
     success_count |-> 0, fail_count |-> 0,
     result_file |-> NotWritten, failed_file |-> NotWritten]

InitTests ==
    /\ text = <<>>
    /\ pc = "tests"
    /\ out = NoOut
    /\ max_retries = 0
    /\ attempt = 0
    /\ api_calls = 0
    /\ ret = NoRet
    /\ catalog = <<>>
    /\ scenario_class = <<>>
    /\ user_question = <<>>
    /\ matched = NoMatch
    /\ again = NoOut
    /\ caught = NoCaught
    /\ LoopIdle
    /\ request = NoRequest
    /\ tests \in {TestsStart(c) : c \in TaskConfigs}

\* The body of the inner for loop on the next prompt: the call and the branch.
SendPrompt ==
    /\ pc = "tests"
    /\ tests.sent < Len(tests.prompts)
    /\ \E LLM_answer \in RequestResults :
          tests' = TestsAfter(tests, tests.prompts[tests.sent + 1], LLM_answer)
    /\ UNCHANGED <<pc, evaluateVars, request>>

\* Lines 380-415: the save step after the last prompt.
SaveModelResults ==
    /\ pc = "tests"
    /\ tests.sent = Len(tests.prompts)
    /\ tests' = [tests EXCEPT !.result_file = ResultFileAfter(tests.LLM_answers),
                              !.failed_file = FailedFileAfter(tests.failed_scenarios)]
    /\ pc' = "tested"
    /\ UNCHANGED <<evaluateVars, request>>

NextTests == SendPrompt \/ SaveModelResults

SpecTests == InitTests /\ [][NextTests]_vars

\* The answers returned so far that succeeded, in order.
SuccessfulAnswers == SelectSeq(tests.returned, LAMBDA a : a.result.success)

\* The answers returned so far that failed, in order.
FailedAnswers == SelectSeq(tests.returned, LAMBDA a : ~a.result.success)

\* C30: in the test loop, after any number of prompts, success_count + fail_count is
\* the number of prompts sent, LLM_answers holds exactly the answers that succeeded
\* (success_count of them) and failed_scenarios one entry for each that failed
\* (fail_count of them); the result file is written only with a successful answer,
\* the FAILED file only with a failed one.
C30_CountsAndFiles ==
    tests.started =>
        /\ tests.sent = Len(tests.returned)
        /\ tests.success_count + tests.fail_count = tests.sent
        /\ tests.LLM_answers = SuccessfulAnswers
        /\ Len(tests.LLM_answers) = tests.success_count
        /\ Len(tests.failed_scenarios) = tests.fail_count
        /\ Len(FailedAnswers) = tests.fail_count
        /\ \A i \in 1..Len(FailedAnswers) :
              /\ tests.failed_scenarios[i].scenario_class = FailedAnswers[i].scenario_class
              /\ tests.failed_scenarios[i].role_user_content = FailedAnswers[i].prompt[2]
              /\ tests.failed_scenarios[i].error = FailedAnswers[i].result.error
        /\ tests.result_file.written => tests.success_count >= 1
        /\ tests.failed_file.written => tests.fail_count >= 1

\* A run with an answer of each kind, after the save step wrote both files.
C30_Witness ==
    /\ pc = "tested"
    /\ tests.started
    /\ tests.success_count >= 1
    /\ tests.fail_count >= 1
    /\ tests.result_file.written
    /\ tests.failed_file.written

\* Every prompt failed: the save step wrote the FAILED file and no result file.
C30_AllFailedWitness ==
    /\ pc = "tested"
    /\ tests.started
    /\ tests.sent >= 2
    /\ tests.success_count = 0
    /\ ~tests.result_file.written
    /\ tests.failed_file.written

====
